---- MODULE Spec2Model ----
(***************************************************************************)
(* Scheduling and booking engine of src/server.py: availability_tool,     *)
(* appointment_book_tool and the helpers they call, over an external      *)
(* calendar (free/busy query, event insert) and an SMTP notifier.         *)
(*                                                                         *)
(* Time is an absolute clinic-local instant counted in ticks of half a    *)
(* minute, so that timestamps carrying seconds are representable.  A day  *)
(* is shortened to MinutesPerDay minutes.  Date 0 is a Monday.            *)
(***************************************************************************)
EXTENDS Integers, Sequences, FiniteSets, TLC

\* ------------------------------------------------------------------ bounds
\* latest clock reading the model explores (the clock starts at Monday 00:03)
MaxNow == 8
\* number of events the provider accepts before every insert fails
MaxEvents == 2
\* latest start instant a caller submits (the earliest is Monday 00:03)
MaxStart == 14
\* longest interval (in ticks) a caller submits
MaxDur == 4
\* largest slot size (minutes) asked of availability_tool
MaxSlot == 2
\* largest distance (days) between date and end_date of a date-range request
MaxSpan == 1
MaxWindowDays == 2

\* ------------------------------------------------------------ time model
TicksPerMinute == 2
MinutesPerDay == 4
TicksPerDay == MinutesPerDay * TicksPerMinute

\* int(os.getenv("MIN_LEAD_MINUTES", "0")): the deployment's lead time
MIN_LEAD_MINUTES == 1

\* Monday 00:03, when the model starts and the earliest instant it handles
FirstInstant == 3 * TicksPerMinute

\* a timestamp string that datetime.fromisoformat rejects
BadTime == 0 - 1
\* the Python value None in an integer or string position
NoneInt == 0 - 2
NoneStr == "none"

DayNames == <<"Mon", "Tue", "Wed", "Thu", "Fri", "Sat", "Sun">>

\* datetime.date() of an instant
DateOf(t) == t \div TicksPerDay
\* strftime("%a") of a date
DayName(date) == DayNames[(date % 7) + 1]
\* strftime("%H:%M"): the minute of the day; the seconds and the date are dropped
HM(t) == (t % TicksPerDay) \div TicksPerMinute
\* timedelta(minutes=m) in ticks
Minutes(m) == m * TicksPerMinute
\* _localize(datetime.combine(date, time-of-day hm))
Combine(date, hm) == date * TicksPerDay + hm * TicksPerMinute

Range(s) == {s[i] : i \in DOMAIN s}

\* -------------------------------------------------------- doctor directory
\* the catalog load_directory() returns: windows are <<start, end>> minutes of the day
DB ==
  [D1 |-> [doctor_id |-> "D1",
           email |-> "doc@clinic",
           calendar_id |-> "cal1",
           weekly_schedule |-> [Mon |-> << <<3, 4>> >>,
                                Tue |-> << <<0, 3>> >>,
                                Wed |-> << <<0, 1>>, <<2, 4>> >>]]]

DoctorIds == {"D1", "DX"}

\* _find_doctor(doctor_id) is not None
DoctorKnown(doctor_id) == doctor_id \in DOMAIN DB

\* schedule.get(day_name, [])
Windows(doctor_id, date) ==
  LET sched == DB[doctor_id].weekly_schedule
  IN IF DayName(date) \in DOMAIN sched THEN sched[DayName(date)] ELSE << >>

\* ------------------------------------------------------------------ emails
GoodEmail == <<"a", "@", "b", ".", "c">>
DotBeforeAt == <<"a", ".", "b", "@", "c">>
Emails == {GoodEmail, DotBeforeAt}

\* patient_email.split("@")[-1]
AfterLastAt(e) ==
  LET ats == {i \in DOMAIN e : e[i] = "@"}
      last == IF ats = {} THEN 0 ELSE CHOOSE i \in ats : \A j \in ats : j <= i
  IN SubSeq(e, last + 1, Len(e))

\* the structural email check of appointment_book_tool
EmailOk(e) == "@" \in Range(e) /\ "." \in Range(AfterLastAt(e))

\* ------------------------------------------------- external calendar gateway
\* service.freebusy().query(timeMin, timeMax, items=[calendar_id]): the busy
\* intervals of the calendar's events that intersect [tmin, tmax)
FreeBusyQuery(calendar, calendar_id, tmin, tmax) ==
  {<<e.start, e.end>> :
     e \in {x \in calendar : x.cal = calendar_id /\ x.start < tmax /\ x.end > tmin}}

\* a variant of _overlaps that takes an interval as busy only when a busy
\* interval begins at the same instant
_overlaps_SameStart(slot_start, slot_end, busy) ==
  \E b \in busy : slot_start = b[1]

\* a variant of _overlaps under which intervals that only touch at an endpoint
\* overlap
_overlaps_Closed(slot_start, slot_end, busy) ==
  \E b \in busy : slot_start <= b[2] /\ slot_end >= b[1]

\* _overlaps(slot_start, slot_end, busy): half-open interval overlap
_overlaps(slot_start, slot_end, busy) ==
  \E b \in busy : slot_start < b[2] /\ slot_end > b[1]

\* ------------------------------------------------------------ slot generator
\* a variant of the tiling loop that goes on while the cursor is inside the
\* window, whether or not the slot still fits
RECURSIVE Tile_Overhang(_, _, _)
Tile_Overhang(cursor, end_local, d) ==
  IF cursor < end_local
    THEN << <<cursor, cursor + d>> >> \o Tile_Overhang(cursor + d, end_local, d)
    ELSE << >>

\* a variant of the tiling loop that leaves out the slot ending at the window end
RECURSIVE Tile_StrictEnd(_, _, _)
Tile_StrictEnd(cursor, end_local, d) ==
  IF cursor + d < end_local
    THEN << <<cursor, cursor + d>> >> \o Tile_StrictEnd(cursor + d, end_local, d)
    ELSE << >>

\* the while loop of _compute_free_slots_for_date for one window, d > 0 ticks:
\* cursor starts at the window start and advances by d while cursor + d <= end
RECURSIVE Tile(_, _, _)
Tile(cursor, end_local, d) ==
  IF cursor + d <= end_local
    THEN << <<cursor, cursor + d>> >> \o Tile(cursor + d, end_local, d)
    ELSE << >>

\* slot_ranges: the windows' tilings appended in window order
RECURSIVE SlotRanges(_, _, _)
SlotRanges(wins, date, slot_minutes) ==
  IF wins = << >> THEN << >>
  ELSE Tile(Combine(date, Head(wins)[1]), Combine(date, Head(wins)[2]),
            Minutes(slot_minutes))
       \o SlotRanges(Tail(wins), date, slot_minutes)

\* earliest window start and latest window end of the day
Earliest(wins, date) ==
  LET starts == {Combine(date, wins[i][1]) : i \in DOMAIN wins}
  IN CHOOSE s \in starts : \A x \in starts : s <= x
Latest(wins, date) ==
  LET ends == {Combine(date, wins[i][2]) : i \in DOMAIN wins}
  IN CHOOSE s \in ends : \A x \in ends : s >= x

\* a variant of the free_slots loop that never applies the lead cutoff
RECURSIVE FreeOf_NoLead(_, _, _, _)
FreeOf_NoLead(ranges, busy, is_today, cutoff) ==
  IF ranges = << >> THEN << >>
  ELSE LET r == Head(ranges)
           rest == FreeOf_NoLead(Tail(ranges), busy, is_today, cutoff)
       IN IF ~ _overlaps(r[1], r[2], busy) THEN <<HM(r[1])>> \o rest
          ELSE rest

\* the free_slots loop: candidates in order, minus those inside the lead window
\* of today and those that overlap a busy interval, as "%H:%M" values
RECURSIVE FreeOf(_, _, _, _)
FreeOf(ranges, busy, is_today, cutoff) ==
  IF ranges = << >> THEN << >>
  ELSE LET r == Head(ranges)
           rest == FreeOf(Tail(ranges), busy, is_today, cutoff)
       IN IF is_today /\ r[1] < cutoff THEN rest
          ELSE IF ~ _overlaps(r[1], r[2], busy) THEN <<HM(r[1])>> \o rest
          ELSE rest

\* a variant of _compute_free_slots_for_date that queries the calendar before it
\* looks at the windows of the day
_compute_free_slots_QueryFirst(calendar, doctor_id, date, slot_minutes, nowv, fbOk) ==
  LET wins == Windows(doctor_id, date)
      ranges == SlotRanges(wins, date, slot_minutes)
  IN IF wins = << >>
       THEN [slots |-> << >>, code |-> "no_schedule", queries |-> 1, ranges |-> << >>]
     ELSE IF ~ fbOk
       THEN [slots |-> << >>, code |-> "freebusy_error", queries |-> 1,
             ranges |-> ranges]
     ELSE
       LET busy == FreeBusyQuery(calendar, DB[doctor_id].calendar_id,
                                 Earliest(wins, date), Latest(wins, date))
           is_today == date = DateOf(nowv)
           cutoff == nowv + Minutes(MIN_LEAD_MINUTES)
           free == FreeOf(ranges, busy, is_today, cutoff)
           any_future == \E i \in DOMAIN ranges : ~ is_today \/ ranges[i][1] >= cutoff
       IN IF free = << >>
            THEN [slots |-> << >>,
                  code |-> IF any_future THEN "fully_booked" ELSE "no_future_slots",
                  queries |-> 1, ranges |-> ranges]
            ELSE [slots |-> free, code |-> NoneStr, queries |-> 1, ranges |-> ranges]

\* a variant of _compute_free_slots_for_date that reports a failed free/busy
\* query as a fully booked day
_compute_free_slots_FailureAsEmpty(calendar, doctor_id, date, slot_minutes, nowv, fbOk) ==
  LET wins == Windows(doctor_id, date)
      ranges == SlotRanges(wins, date, slot_minutes)
  IN IF wins = << >>
       THEN [slots |-> << >>, code |-> "no_schedule", queries |-> 0, ranges |-> << >>]
     ELSE IF ~ fbOk
       THEN [slots |-> << >>, code |-> "fully_booked", queries |-> 1,
             ranges |-> ranges]
     ELSE
       LET busy == FreeBusyQuery(calendar, DB[doctor_id].calendar_id,
                                 Earliest(wins, date), Latest(wins, date))
           is_today == date = DateOf(nowv)
           cutoff == nowv + Minutes(MIN_LEAD_MINUTES)
           free == FreeOf(ranges, busy, is_today, cutoff)
           any_future == \E i \in DOMAIN ranges : ~ is_today \/ ranges[i][1] >= cutoff
       IN IF free = << >>
            THEN [slots |-> << >>,
                  code |-> IF any_future THEN "fully_booked" ELSE "no_future_slots",
                  queries |-> 1, ranges |-> ranges]
            ELSE [slots |-> free, code |-> NoneStr, queries |-> 1, ranges |-> ranges]

\* _compute_free_slots_for_date(doctor, date, slot_minutes) for slot_minutes > 0,
\* read at clock nowv; fbOk is whether the provider answers the free/busy query.
\* Yields the slot list, the meta code, the number of calendar queries issued
\* and the candidate slots the tiling generated (slot_ranges).
_compute_free_slots_for_date(calendar, doctor_id, date, slot_minutes, nowv, fbOk) ==
  LET wins == Windows(doctor_id, date)
      ranges == SlotRanges(wins, date, slot_minutes)
  IN IF wins = << >>
       THEN [slots |-> << >>, code |-> "no_schedule", queries |-> 0, ranges |-> << >>]
     ELSE IF ~ fbOk
       THEN [slots |-> << >>, code |-> "freebusy_error", queries |-> 1,
             ranges |-> ranges]
     ELSE
       LET busy == FreeBusyQuery(calendar, DB[doctor_id].calendar_id,
                                 Earliest(wins, date), Latest(wins, date))
           is_today == date = DateOf(nowv)
           cutoff == nowv + Minutes(MIN_LEAD_MINUTES)
           free == FreeOf(ranges, busy, is_today, cutoff)
           any_future == \E i \in DOMAIN ranges : ~ is_today \/ ranges[i][1] >= cutoff
       IN IF free = << >>
            THEN [slots |-> << >>,
                  code |-> IF any_future THEN "fully_booked" ELSE "no_future_slots",
                  queries |-> 1, ranges |-> ranges]
            ELSE [slots |-> free, code |-> NoneStr, queries |-> 1, ranges |-> ranges]

\* a variant of _within_schedule that looks at the start only
_within_schedule_StartOnly(doctor_id, start_local, end_local) ==
  LET wins == Windows(doctor_id, DateOf(start_local))
  IN \E i \in DOMAIN wins :
       /\ start_local >= Combine(DateOf(start_local), wins[i][1])
       /\ start_local < Combine(DateOf(start_local), wins[i][2])

\* _within_schedule(doctor, start_local, end_local): the interval lies inside one
\* window of the weekday of start_local, placed on the date of start_local
_within_schedule(doctor_id, start_local, end_local) ==
  LET wins == Windows(doctor_id, DateOf(start_local))
  IN \E i \in DOMAIN wins :
       /\ start_local >= Combine(DateOf(start_local), wins[i][1])
       /\ end_local <= Combine(DateOf(start_local), wins[i][2])

\* a variant of _slot_conflicts_with_calendar that reports a conflict only
\* when the query fails and ignores the busy list
_slot_conflicts_OnlyOnFailure(calendar, doctor_id, start_local, end_local, fbOk) ==
  ~ fbOk

\* _slot_conflicts_with_calendar(doctor, start_local, end_local): a failed query
\* counts as a conflict
_slot_conflicts_with_calendar(calendar, doctor_id, start_local, end_local, fbOk) ==
  IF ~ fbOk THEN TRUE
  ELSE _overlaps(start_local, end_local,
                 FreeBusyQuery(calendar, DB[doctor_id].calendar_id, start_local, end_local))

\* --------------------------------------------------------------------- state
VARIABLES
  now,     \* the clinic-local clock, datetime.now(ZoneInfo(DEFAULT_TZ))
  cal,     \* the events held by the external calendar provider
  nextId,  \* the id the provider gives the next event it creates
  fr,      \* per request thread: the position and locals of the call in flight
  ret      \* the outcome of the call that ended last, with the request it answers

vars == <<now, cal, nextId, fr, ret>>

Procs == {1, 2}

NoFacts ==
  [known |-> FALSE, parsed |-> FALSE, positive |-> FALSE, emailOk |-> FALSE,
   early |-> FALSE, contained |-> FALSE, busy |-> FALSE]

IdleFrame ==
  [pc |-> "idle", doc |-> NoneStr, start |-> 0, end |-> 0, email |-> << >>,
   meet |-> FALSE, ticked |-> FALSE, queries |-> 0, attempts |-> << >>, made |-> {},
   eid |-> NoneInt, viaAvail |-> FALSE, req |-> NoFacts, provFail |-> FALSE,
   stale |-> FALSE, invocation |-> 0, pre |-> {}, ev |-> {}, invite |-> FALSE]

\* What the record of an ended call holds.  The answer: status, err, event_id,
\* smtp_status, smtp_error (book), slots, code (availability).  The request it
\* answers: doc, date, sm (availability); the facts about a book request (req)
\* and, once the request has passed the checks that need no calendar, its start
\* and end.  What the call did: steady (the clock did not move during the
\* call), queries (calendar queries issued), attempts (the inserts tried, each
\* with whether it carried the conferencing request and how it ended), made
\* (ids of the events it created), sends (whether each mail was delivered),
\* viaAvail (the request took a slot of the availability answer just before),
\* provFail (a provider call failed), ranges (the candidate slots an
\* availability call generated), invocation (the how-manieth invocation of
\* appointment_book_tool for the caller's request this was).  For a
\* date-range availability call: end_date, dates (the result map, from each
\* day of the range to its slot list) and failedDays (the days whose free/busy query the
\* provider did not answer).  For cancel, reschedule and list: who (the
\* patient_email of the request), event_id (the event asked about), pre (the
\* calendar as it was when the call began), listed (the event ids a list call
\* returns) and window_days.
NoRet ==
  [op |-> NoneStr, doc |-> NoneStr, start |-> 0, end |-> 0,
   date |-> 0, sm |-> 0, status |-> NoneStr, err |-> NoneStr, event_id |-> NoneInt,
   smtp_status |-> NoneStr, smtp_error |-> NoneStr, slots |-> << >>, code |-> NoneStr,
   req |-> NoFacts, steady |-> TRUE, queries |-> 0, attempts |-> << >>, made |-> {},
   sends |-> << >>, viaAvail |-> FALSE, provFail |-> FALSE, ranges |-> << >>,
   invocation |-> 0, dates |-> << >>, failedDays |-> {}, end_date |-> 0,
   who |-> << >>, pre |-> {}, listed |-> {}, window_days |-> 0]

\* the outcome of a book call whose frame is f
BookRet(f, status, err, event_id, smtp_status, smtp_error) ==
  [NoRet EXCEPT !.op = "book", !.doc = f.doc, !.start = f.start, !.end = f.end,
                !.status = status, !.err = err,
                !.event_id = event_id, !.smtp_status = smtp_status,
                !.smtp_error = smtp_error, !.req = f.req, !.steady = ~ f.ticked,
                !.queries = f.queries, !.attempts = f.attempts, !.made = f.made,
                !.viaAvail = f.viaAvail, !.provFail = f.provFail,
                !.invocation = f.invocation]

Init ==
  /\ now = FirstInstant
  /\ cal = {}
  /\ nextId = 1
  /\ fr = [p \in Procs |-> IdleFrame]
  /\ ret = NoRet

\* time passes
Tick ==
  /\ now < MaxNow
  /\ ret = NoRet
  /\ now' = now + 1
  /\ fr' = [p \in Procs |-> IF fr[p].pc = "idle" THEN fr[p]
                                                  ELSE [fr[p] EXCEPT !.ticked = TRUE]]
  /\ UNCHANGED <<cal, nextId, ret>>

\* the caller takes the answer of the call that ended
Return ==
  /\ ret # NoRet
  /\ ret' = NoRet
  /\ UNCHANGED <<now, cal, nextId, fr>>

\* the dates a caller asks about: from Monday, two days past the last day the
\* clock reaches
Dates == 0 .. DateOf(MaxNow) + 2

\* the slot sizes a caller asks of availability_tool; the tool accepts any integer
SlotSizes == (0 - 1) .. MaxSlot

\* a variant of availability_tool that treats the first slot it has returned
\* as handed out: a repeated call no longer lists it
AvailAnswers_HandsOut(doctor_id, date, slot_minutes, fbOk, n) ==
  LET base == [NoRet EXCEPT !.op = "avail", !.doc = doctor_id, !.date = date,
                            !.sm = slot_minutes, !.invocation = n]
  IN IF ~ DoctorKnown(doctor_id)
       THEN {[base EXCEPT !.status = "error", !.err = "unknown_doctor"]}
     ELSE IF slot_minutes <= 0 /\ Windows(doctor_id, date) # << >>
       THEN {[base EXCEPT !.status = "hang"], [base EXCEPT !.status = "raised"]}
     ELSE
       LET r == _compute_free_slots_for_date(cal, doctor_id, date, slot_minutes, now, fbOk)
       IN {[base EXCEPT !.status = "ok",
                        !.slots = IF n > 1 /\ r.slots # << >> THEN Tail(r.slots)
                                                              ELSE r.slots,
                        !.code = r.code,
                        !.queries = r.queries, !.ranges = r.ranges,
                        !.provFail = (r.queries > 0 /\ ~ fbOk)]}

\* availability_tool(doctor_id, date, slot_minutes) for one date, lines 267-288:
\* the answers the n-th consecutive call with these arguments can give.  With
\* slot_minutes <= 0 on a day with windows the tiling loop of lines 344-346
\* never ends: the call hangs, or the list it grows exhausts memory and the
\* error leaves the tool.
AvailAnswers(doctor_id, date, slot_minutes, fbOk, n) ==
  LET base == [NoRet EXCEPT !.op = "avail", !.doc = doctor_id, !.date = date,
                            !.sm = slot_minutes, !.invocation = n]
  IN IF ~ DoctorKnown(doctor_id)
       THEN {[base EXCEPT !.status = "error", !.err = "unknown_doctor"]}
     ELSE IF slot_minutes <= 0 /\ Windows(doctor_id, date) # << >>
       THEN {[base EXCEPT !.status = "hang"], [base EXCEPT !.status = "raised"]}
     ELSE
       LET r == _compute_free_slots_for_date(cal, doctor_id, date, slot_minutes, now, fbOk)
       IN {[base EXCEPT !.status = "ok", !.slots = r.slots, !.code = r.code,
                        !.queries = r.queries, !.ranges = r.ranges,
                        !.provFail = (r.queries > 0 /\ ~ fbOk)]}

\* a caller asks for the free slots of one date
Availability ==
  /\ \A p \in Procs : fr[p].pc = "idle"
  /\ ret = NoRet
  /\ \E doctor_id \in DoctorIds, date \in Dates, slot_minutes \in SlotSizes,
        fbOk \in BOOLEAN :
       ret' \in AvailAnswers(doctor_id, date, slot_minutes, fbOk, 1)
  /\ UNCHANGED <<now, cal, nextId, fr>>

\* the caller that has just been answered asks the same question again at once
AvailabilityAgain ==
  /\ ret.op = "avail" /\ ret.status = "ok"
  /\ \E fbOk \in BOOLEAN :
       ret' \in AvailAnswers(ret.doc, ret.date, ret.sm, fbOk, 2)
  /\ UNCHANGED <<now, cal, nextId, fr>>

\* a variant of the loop over the days of a range that stops before end_date
RangeDays_ExclusiveEnd(start_d, end_d) == start_d .. end_d - 1

\* the days the loop of lines 298-304 visits: day = start_d; while day <= end_d
RangeDays(start_d, end_d) == start_d .. end_d

\* availability_tool(doctor_id, date, slot_minutes, end_date), lines 290-313:
\* the bounds are swapped when end_date is before date, every day of the range
\* is computed in turn and only its slot list is kept.  failing is the set of
\* days on which the provider does not answer the free/busy query.
AvailabilityRange ==
  /\ \A p \in Procs : fr[p].pc = "idle"
  /\ ret = NoRet
  /\ \E doctor_id \in DoctorIds, date \in Dates, end_date \in Dates,
        slot_minutes \in 1 .. MaxSlot :
       LET start_d == IF end_date < date THEN end_date ELSE date
           end_d == IF end_date < date THEN date ELSE end_date
           base == [NoRet EXCEPT !.op = "range", !.doc = doctor_id, !.date = date,
                                 !.end_date = end_date, !.sm = slot_minutes]
       IN /\ end_d - start_d <= MaxSpan
          /\ \E failing \in SUBSET (start_d .. end_d) :
               ret' = IF ~ DoctorKnown(doctor_id)
                        THEN [base EXCEPT !.status = "error", !.err = "unknown_doctor"]
                        ELSE LET day(d) == _compute_free_slots_for_date(
                                              cal, doctor_id, d, slot_minutes, now,
                                              d \notin failing)
                             IN [base EXCEPT
                                   !.status = "ok",
                                   !.dates = [d \in RangeDays(start_d, end_d) |-> day(d).slots],
                                   !.failedDays = {d \in failing : day(d).queries > 0},
                                   !.provFail = \E d \in failing : day(d).queries > 0]
  /\ UNCHANGED <<now, cal, nextId, fr>>

\* the requests a caller may submit to appointment_book_tool, as
\* <<doctor_id, start, end, patient_email, meet>>: start and end are instants
\* or unparsable; meet is whether the call asks for conferencing (visit_mode
\* online and create_meet)
BookTimes ==
  {<<s, s + d>> : s \in FirstInstant .. MaxStart, d \in 0 .. MaxDur}
    \cup {<<BadTime, FirstInstant>>, <<FirstInstant, BadTime>>}
BookRequests ==
  {<<doctor_id, se[1], se[2], email, meet>> :
     doctor_id \in DoctorIds, se \in BookTimes, email \in Emails, meet \in BOOLEAN}

\* the requests of two callers after the same slots: Tuesday 00:00 to 00:01,
\* one or two minutes long
RaceRequests ==
  {<<"D1", s, s + Minutes(m), GoodEmail, FALSE>> :
     s \in Combine(1, 0) .. Combine(1, 1), m \in 1 .. 2}

\* a variant of LocalError whose lead-time check also refuses a start equal to
\* the cutoff
LocalError_LeadInclusive(doctor_id, start, end, email, nowv) ==
  IF ~ DoctorKnown(doctor_id) THEN "unknown_doctor"
  ELSE IF start = BadTime \/ end = BadTime THEN "invalid_format"
  ELSE IF end <= start THEN "end_not_after_start"
  ELSE IF ~ EmailOk(email) THEN "invalid_email"
  ELSE IF start <= nowv + Minutes(MIN_LEAD_MINUTES) THEN "lead_time"
  ELSE IF ~ _within_schedule(doctor_id, start, end) THEN "outside_hours"
  ELSE NoneStr

\* a variant of LocalError that checks the schedule window before the lead time
LocalError_ScheduleFirst(doctor_id, start, end, email, nowv) ==
  IF ~ DoctorKnown(doctor_id) THEN "unknown_doctor"
  ELSE IF start = BadTime \/ end = BadTime THEN "invalid_format"
  ELSE IF end <= start THEN "end_not_after_start"
  ELSE IF ~ EmailOk(email) THEN "invalid_email"
  ELSE IF ~ _within_schedule(doctor_id, start, end) THEN "outside_hours"
  ELSE IF start < nowv + Minutes(MIN_LEAD_MINUTES) THEN "lead_time"
  ELSE NoneStr

\* the first failing check among lines 430-454 of appointment_book_tool, if any
LocalError(doctor_id, start, end, email, nowv) ==
  IF ~ DoctorKnown(doctor_id) THEN "unknown_doctor"
  ELSE IF start = BadTime \/ end = BadTime THEN "invalid_format"
  ELSE IF end <= start THEN "end_not_after_start"
  ELSE IF ~ EmailOk(email) THEN "invalid_email"
  ELSE IF start < nowv + Minutes(MIN_LEAD_MINUTES) THEN "lead_time"
  ELSE IF ~ _within_schedule(doctor_id, start, end) THEN "outside_hours"
  ELSE NoneStr

\* The facts about a book request that the claims speak of, stated on the
\* request and the state at the call, independently of the code's checks:
\* the doctor is in the directory; both timestamps parse; end is after start;
\* the email has an "@" followed somewhere by a "."; the start is before
\* now + lead time; the interval lies in one window of the doctor on the
\* start's weekday; an event of the doctor's calendar intersects the interval.
Facts(doctor_id, start, end, email) ==
  LET known == doctor_id \in DOMAIN DB
      parsed == start # BadTime /\ end # BadTime
      date == start \div TicksPerDay
      sched == DB[doctor_id].weekly_schedule
      day == DayNames[(date % 7) + 1]
  IN [known |-> known,
      parsed |-> parsed,
      positive |-> parsed /\ end > start,
      emailOk |-> \E i, j \in DOMAIN email : i < j /\ email[i] = "@" /\ email[j] = ".",
      early |-> parsed /\ start < now + MIN_LEAD_MINUTES * TicksPerMinute,
      contained |-> /\ known /\ parsed /\ day \in DOMAIN sched
                    /\ \E i \in DOMAIN sched[day] :
                         /\ date * TicksPerDay + sched[day][i][1] * TicksPerMinute <= start
                         /\ end <= date * TicksPerDay + sched[day][i][2] * TicksPerMinute,
      busy |-> /\ known /\ parsed
               /\ \E x \in cal : /\ x.cal = DB[doctor_id].calendar_id
                                 /\ start < x.end /\ end > x.start]

\* appointment_book_tool, lines 430-454, for the request rq: the checks that
\* need no calendar; via is whether rq was taken from an availability answer,
\* n the how-manieth invocation for the caller's request this is.  A request
\* may carry send_invitations as a sixth element; left out, it is False, the
\* default of the parameter.
BookStartAs(p, rq, via, n) ==
  LET e == LocalError(rq[1], rq[2], rq[3], rq[4], now)
      f == [IdleFrame EXCEPT
              !.pc = "preflight", !.doc = rq[1], !.start = rq[2], !.end = rq[3],
              !.email = rq[4], !.meet = rq[5], !.viaAvail = via,
              !.req = Facts(rq[1], rq[2], rq[3], rq[4]), !.invocation = n,
              !.invite = (Len(rq) >= 6 /\ rq[6])]
  IN /\ IF e # NoneStr
          THEN /\ ret' = [NoRet EXCEPT !.op = "book", !.status = "error", !.err = e,
                                       !.req = f.req, !.viaAvail = via,
                                       !.invocation = n]
               /\ fr' = [fr EXCEPT ![p] = IdleFrame]
          ELSE /\ fr' = [fr EXCEPT ![p] = f]
               /\ ret' = NoRet
     /\ UNCHANGED <<now, cal, nextId>>

\* the first invocation of appointment_book_tool for a request
BookStart(p, rq, via) == BookStartAs(p, rq, via, 1)

\* a caller submits any request
BookCall(p, requests) ==
  /\ fr[p].pc = "idle"
  /\ ret = NoRet
  /\ \E rq \in requests : BookStart(p, rq, FALSE)

\* the flow of test_mcp.py: the caller that has just been answered by
\* availability_tool books one of the listed slots, start = date "T" slot and
\* end = start + slot_minutes, with a well-formed email (like every caller, no
\* later than MaxStart)
BookListed(p) ==
  /\ fr[p].pc = "idle"
  /\ ret.op = "avail" /\ ret.status = "ok"
  /\ \E i \in DOMAIN ret.slots :
       LET start == Combine(ret.date, ret.slots[i])
       IN /\ start <= MaxStart
          /\ \E meet \in BOOLEAN :
               BookStart(p, <<ret.doc, start, start + Minutes(ret.sm), GoodEmail, meet>>, TRUE)

\* lines 456-458: the preflight conflict check, one free/busy query
BookPreflight(p) ==
  /\ fr[p].pc = "preflight"
  /\ \E fbOk \in BOOLEAN :
       LET f == [fr[p] EXCEPT !.queries = @ + 1, !.provFail = @ \/ ~ fbOk]
       IN IF _slot_conflicts_with_calendar(cal, f.doc, f.start, f.end, fbOk)
            THEN /\ ret' = BookRet(f, "error", "conflict", NoneInt, NoneStr, NoneStr)
                 /\ fr' = [fr EXCEPT ![p] = IdleFrame]
            ELSE /\ fr' = [fr EXCEPT ![p] = [f EXCEPT !.pc = "guard"]]
                 /\ ret' = ret
  /\ UNCHANGED <<now, cal, nextId>>

\* lines 460-469: the slot-list guard.  slot_minutes is the whole minutes of
\* end - start; with slot_minutes = 0 the tiling loop of
\* _compute_free_slots_for_date never ends: the call hangs, or the list it
\* grows exhausts memory and the except clause lets the booking go on.
BookGuard(p) ==
  /\ fr[p].pc = "guard"
  /\ LET f == fr[p]
         slot_minutes == (f.end - f.start) \div TicksPerMinute
         requested_hm == HM(f.start)
     IN IF slot_minutes = 0
          THEN \/ /\ ret' = BookRet(f, "hang", NoneStr, NoneInt, NoneStr, NoneStr)
                  /\ fr' = [fr EXCEPT ![p] = IdleFrame]
               \/ /\ fr' = [fr EXCEPT ![p] = [f EXCEPT !.pc = "insert"]]
                  /\ ret' = ret
          ELSE \E fbOk \in BOOLEAN :
                 LET r == _compute_free_slots_for_date(cal, f.doc, DateOf(f.start),
                                                       slot_minutes, now, fbOk)
                     g == [f EXCEPT !.queries = @ + r.queries, !.provFail = @ \/ ~ fbOk]
                 IN IF requested_hm \notin Range(r.slots)
                      THEN /\ ret' = BookRet(g, "error", "not_a_slot",
                                             NoneInt, NoneStr, NoneStr)
                           /\ fr' = [fr EXCEPT ![p] = IdleFrame]
                      ELSE /\ fr' = [fr EXCEPT ![p] = [g EXCEPT !.pc = "insert"]]
                           /\ ret' = ret
  /\ UNCHANGED <<now, cal, nextId>>

\* the doctor's email as it stands in the attendee list (line 498)
DoctorAddress == <<"d", "o", "c", "@", "c", "l", "i", "n", "i", "c">>

\* the event appointment_book_tool builds (lines 471-514), as the provider
\* stores it under a fresh id
NewEvent(f) ==
  [id |-> nextId, cal |-> DB[f.doc].calendar_id, start |-> f.start, end |-> f.end,
   email |-> f.email, raced |-> f.stale,
   attendees |-> IF f.invite THEN {DoctorAddress, f.email} ELSE {}]

\* the other calls in flight whose preflight answer a calendar write outdates
Outdate(frames, p) ==
  [q \in Procs |->
     IF q # p /\ frames[q].pc \in {"guard", "insert", "retry"}
       THEN [frames[q] EXCEPT !.stale = TRUE]
       ELSE frames[q]]

\* what service.events().insert(...).execute() may do: create the event, raise
\* an error that names conferencing, or raise another error
InsertOutcomes == {"ok", "conference_error", "other_error"}

\* lines 516-538: the first insert, with the conferencing request if asked.
\* okPc is where the call goes on after the insert succeeded, retryOn the
\* failures after which it inserts a second time.
BookInsertWith(p, okPc, retryOn) ==
  /\ fr[p].pc = "insert"
  /\ \E out \in InsertOutcomes :
       LET f == [fr[p] EXCEPT !.attempts = Append(@, [conf |-> fr[p].meet, out |-> out]),
                              !.provFail = @ \/ out # "ok"]
       IN IF out = "ok"
            THEN /\ nextId <= MaxEvents
                 /\ cal' = cal \cup {NewEvent(f)}
                 /\ nextId' = nextId + 1
                 /\ fr' = Outdate([fr EXCEPT ![p] = [f EXCEPT !.pc = okPc,
                                                              !.eid = nextId,
                                                              !.made = @ \cup {nextId}]], p)
                 /\ ret' = ret
          ELSE IF out \in retryOn
            THEN /\ fr' = [fr EXCEPT ![p] = [f EXCEPT !.pc = "retry"]]
                 /\ UNCHANGED <<cal, nextId, ret>>
            ELSE /\ ret' = BookRet(f, "error", "insert_error", NoneInt, NoneStr, NoneStr)
                 /\ fr' = [fr EXCEPT ![p] = IdleFrame]
                 /\ UNCHANGED <<cal, nextId>>
  /\ UNCHANGED now

\* a variant of the first insert that goes on to the second insert after it
\* succeeded
BookInsert_FallsThrough(p) == BookInsertWith(p, "retry", {"conference_error"})

\* a variant of the first insert that inserts a second time after any failure
BookInsert_RetryAny(p) ==
  BookInsertWith(p, "notify", {"conference_error", "other_error"})

\* the first insert: the mails follow its success, the second insert follows a
\* failure whose message names conferencing, any other failure is returned
BookInsert(p) == BookInsertWith(p, "notify", {"conference_error"})

\* lines 526-536: the second insert, conferenceData popped from the event
BookRetry(p) ==
  /\ fr[p].pc = "retry"
  /\ \E out \in {"ok", "other_error"} :
       LET f == [fr[p] EXCEPT !.attempts = Append(@, [conf |-> FALSE, out |-> out]),
                              !.provFail = @ \/ out # "ok"]
       IN IF out = "ok"
            THEN /\ nextId <= MaxEvents
                 /\ cal' = cal \cup {NewEvent(f)}
                 /\ nextId' = nextId + 1
                 /\ fr' = Outdate([fr EXCEPT ![p] = [f EXCEPT !.pc = "notify",
                                                              !.eid = nextId,
                                                              !.made = @ \cup {nextId}]], p)
                 /\ ret' = ret
            ELSE /\ ret' = BookRet(f, "error", "insert_error", NoneInt, NoneStr, NoneStr)
                 /\ fr' = [fr EXCEPT ![p] = IdleFrame]
                 /\ UNCHANGED <<cal, nextId>>
  /\ UNCHANGED now

\* _send_plain_email: (True, None) or (False, the error text)
_send_plain_email(delivered) ==
  IF delivered THEN <<TRUE, NoneStr>> ELSE <<FALSE, "smtp_error">>

\* a variant of the notification step that deletes the event and returns an
\* error when a mail fails
BookNotify_RollsBack(p) ==
  /\ fr[p].pc = "notify"
  /\ \E d1 \in BOOLEAN, d2 \in BOOLEAN :
       LET f == fr[p]
       IN IF d1 /\ d2
            THEN /\ ret' = [BookRet(f, "ok", NoneStr, f.eid, "sent", NoneStr)
                              EXCEPT !.sends = <<d1, d2>>]
                 /\ cal' = cal
            ELSE /\ ret' = [BookRet(f, "error", "smtp_error", NoneInt, "failed", "smtp_error")
                              EXCEPT !.sends = <<d1, d2>>]
                 /\ cal' = {e \in cal : e.id # f.eid}
  /\ fr' = [fr EXCEPT ![p] = IdleFrame]
  /\ UNCHANGED <<now, nextId>>

\* lines 614-631: the two notification mails and the success result
BookNotify(p) ==
  /\ fr[p].pc = "notify"
  /\ \E d1 \in BOOLEAN, d2 \in BOOLEAN :
       LET f == fr[p]
           r1 == _send_plain_email(d1)
           r2 == _send_plain_email(d2)
           smtp_ok == r1[1] /\ r2[1]
           smtp_err == IF r1[2] # NoneStr THEN r1[2] ELSE r2[2]
       IN ret' = [BookRet(f, "ok", NoneStr, f.eid,
                          IF smtp_ok THEN "sent" ELSE "failed", smtp_err)
                    EXCEPT !.sends = <<d1, d2>>]
  /\ fr' = [fr EXCEPT ![p] = IdleFrame]
  /\ UNCHANGED <<now, cal, nextId>>

\* ------------------------------------------------------- appointment lifecycle
\* the description appointment_book_tool writes into the event holds the line
\* "Patient: <name> <email>" (lines 472-477)
Description(e) == <<"<">> \o e.email \o <<">">>

\* Python's "pe in desc" on strings: pe occurs in desc as a contiguous run
IsSubSeq(pe, desc) ==
  \E i \in 0 .. Len(desc) - Len(pe) : SubSeq(desc, i + 1, i + Len(pe)) = pe

\* str.lower() on the letters of this model's emails
LowerChar(c) ==
  IF c = "A" THEN "a" ELSE IF c = "B" THEN "b" ELSE IF c = "C" THEN "c" ELSE c
Lower(str) == [i \in DOMAIN str |-> LowerChar(str[i])]

\* a variant of _event_contains_patient that compares without lowercasing
_event_contains_patient_CaseSensitive(ev, patient_email) ==
  IF patient_email = << >> THEN FALSE
  ELSE \/ \E a \in ev.attendees : a = patient_email
       \/ IsSubSeq(patient_email, Description(ev))

\* _event_contains_patient(ev, patient_email), lines 704-718: false for no
\* email; else the lowercased email equals a lowercased attendee email or
\* occurs in the lowercased description
_event_contains_patient(ev, patient_email) ==
  IF patient_email = << >> THEN FALSE
  ELSE LET pe == Lower(patient_email)
       IN \/ \E a \in ev.attendees : Lower(a) = pe
          \/ IsSubSeq(pe, Lower(Description(ev)))

\* the patient_email values of cancel, reschedule and list requests: the email
\* the bookings are made with, an address that is a prefix of it, an
\* unrelated address, and none
PrefixEmail == <<"a", "@", "b">>
OtherEmail == <<"z", "@", "b", ".", "c">>
Requesters == {GoodEmail, PrefixEmail, OtherEmail, << >>}

\* the event ids a caller may name: those the provider has given out or will,
\* and one it never gives
EventIds == 1 .. MaxEvents + 1

\* service.events().get(calendarId, eventId): the event, in a set that is
\* empty when the provider knows no such event and the call raises
EventGet(calendar, calendar_id, event_id) ==
  {e \in calendar : e.cal = calendar_id /\ e.id = event_id}

\* the outcome of a cancel or reschedule call whose frame is f
LifeRet(f, op, status, err) ==
  [NoRet EXCEPT !.op = op, !.doc = f.doc, !.start = f.start, !.end = f.end,
                !.status = status, !.err = err, !.event_id = f.eid,
                !.who = f.email, !.pre = f.pre, !.req = f.req,
                !.steady = ~ f.ticked, !.queries = f.queries,
                !.provFail = f.provFail]

\* cancel_appointment_tool(doctor_id, event_id, patient_email), lines 784-786
CancelCall(p, requests) ==
  /\ fr[p].pc = "idle"
  /\ ret = NoRet
  /\ \E rq \in requests :
       LET f == [IdleFrame EXCEPT !.pc = "c_get", !.doc = rq[1], !.eid = rq[2],
                                  !.email = rq[3], !.pre = cal]
       IN IF ~ DoctorKnown(rq[1])
            THEN /\ ret' = LifeRet(f, "cancel", "error", "unknown_doctor")
                 /\ fr' = fr
            ELSE /\ fr' = [fr EXCEPT ![p] = f]
                 /\ ret' = ret
  /\ UNCHANGED <<now, cal, nextId>>

\* CancelGet without the ownership check of line 790
CancelGet_NoOwnerCheck(p) ==
  /\ fr[p].pc = "c_get"
  /\ \E ok \in BOOLEAN :
       LET f == [fr[p] EXCEPT !.queries = @ + 1, !.provFail = @ \/ ~ ok]
           found == EventGet(cal, DB[f.doc].calendar_id, f.eid)
       IN IF ~ ok \/ found = {}
            THEN /\ ret' = LifeRet(f, "cancel", "error", "provider_error")
                 /\ fr' = [fr EXCEPT ![p] = IdleFrame]
            ELSE /\ fr' = [fr EXCEPT ![p] = [f EXCEPT !.pc = "c_delete", !.ev = found]]
                 /\ ret' = ret
  /\ UNCHANGED <<now, cal, nextId>>

\* lines 789-791: load the event by id and check that it is the requester's
CancelGet(p) ==
  /\ fr[p].pc = "c_get"
  /\ \E ok \in BOOLEAN :
       LET f == [fr[p] EXCEPT !.queries = @ + 1, !.provFail = @ \/ ~ ok]
           found == EventGet(cal, DB[f.doc].calendar_id, f.eid)
       IN IF ~ ok \/ found = {}
            THEN /\ ret' = LifeRet(f, "cancel", "error", "provider_error")
                 /\ fr' = [fr EXCEPT ![p] = IdleFrame]
          ELSE IF \E ev \in found : ~ _event_contains_patient(ev, f.email)
            THEN /\ ret' = LifeRet(f, "cancel", "error", "unauthorized")
                 /\ fr' = [fr EXCEPT ![p] = IdleFrame]
            ELSE /\ fr' = [fr EXCEPT ![p] = [f EXCEPT !.pc = "c_delete", !.ev = found]]
                 /\ ret' = ret
  /\ UNCHANGED <<now, cal, nextId>>

\* lines 795-798: delete the event by id
CancelDelete(p) ==
  /\ fr[p].pc = "c_delete"
  /\ \E ok \in BOOLEAN :
       LET f == [fr[p] EXCEPT !.provFail = @ \/ ~ ok]
           found == EventGet(cal, DB[f.doc].calendar_id, f.eid)
       IN IF ~ ok \/ found = {}
            THEN /\ ret' = LifeRet(f, "cancel", "error", "provider_error")
                 /\ cal' = cal
            ELSE /\ ret' = LifeRet(f, "cancel", "ok", NoneStr)
                 /\ cal' = cal \ found
  /\ fr' = [fr EXCEPT ![p] = IdleFrame]
  /\ UNCHANGED <<now, nextId>>

\* the cancel requests of any caller
CancelRequests ==
  {<<doctor_id, event_id, patient_email>> :
     doctor_id \in DoctorIds, event_id \in EventIds, patient_email \in Requesters}

\* a variant of ReschedLocalError without the schedule-window check
ReschedLocalError_NoSchedule(doctor_id, start, end, nowv) ==
  IF ~ DoctorKnown(doctor_id) THEN "unknown_doctor"
  ELSE IF start = BadTime \/ end = BadTime THEN "invalid_format"
  ELSE IF start < nowv + Minutes(MIN_LEAD_MINUTES) THEN "lead_time"
  ELSE NoneStr

\* a variant of ReschedLocalError that parses the timestamps before it looks
\* the doctor up
ReschedLocalError_FormatFirst(doctor_id, start, end, nowv) ==
  IF start = BadTime \/ end = BadTime THEN "invalid_format"
  ELSE IF ~ DoctorKnown(doctor_id) THEN "unknown_doctor"
  ELSE IF start < nowv + Minutes(MIN_LEAD_MINUTES) THEN "lead_time"
  ELSE IF ~ _within_schedule(doctor_id, start, end) THEN "outside_hours"
  ELSE NoneStr

\* the first failing check among lines 810-823 of reschedule_tool, if any
ReschedLocalError(doctor_id, start, end, nowv) ==
  IF ~ DoctorKnown(doctor_id) THEN "unknown_doctor"
  ELSE IF start = BadTime \/ end = BadTime THEN "invalid_format"
  ELSE IF start < nowv + Minutes(MIN_LEAD_MINUTES) THEN "lead_time"
  ELSE IF ~ _within_schedule(doctor_id, start, end) THEN "outside_hours"
  ELSE NoneStr

\* reschedule_tool(doctor_id, event_id, new_start, new_end, patient_email),
\* lines 810-823: the checks that need no calendar
ReschedCall(p, requests) ==
  /\ fr[p].pc = "idle"
  /\ ret = NoRet
  /\ \E rq \in requests :
       LET e == ReschedLocalError(rq[1], rq[3], rq[4], now)
           f == [IdleFrame EXCEPT !.pc = "r_preflight", !.doc = rq[1], !.eid = rq[2],
                                  !.start = rq[3], !.end = rq[4], !.email = rq[5],
                                  !.pre = cal,
                                  !.req = Facts(rq[1], rq[3], rq[4], rq[5])]
       IN IF e # NoneStr
            THEN /\ ret' = LifeRet(f, "resched", "error", e)
                 /\ fr' = fr
            ELSE /\ fr' = [fr EXCEPT ![p] = f]
                 /\ ret' = ret
  /\ UNCHANGED <<now, cal, nextId>>

\* a variant of ReschedPreflight that goes on to the update without asking
\* the calendar
ReschedPreflight_Skipped(p) ==
  /\ fr[p].pc = "r_preflight"
  /\ fr' = [fr EXCEPT ![p] = [fr[p] EXCEPT !.pc = "r_get"]]
  /\ UNCHANGED <<now, cal, nextId, ret>>

\* a variant of ReschedPreflight whose query leaves the event that is being
\* moved out of the busy intervals
ReschedPreflight_IgnoresSelf(p) ==
  /\ fr[p].pc = "r_preflight"
  /\ \E fbOk \in BOOLEAN :
       LET f == [fr[p] EXCEPT !.queries = @ + 1, !.provFail = @ \/ ~ fbOk]
           others == {e \in cal : e.id # f.eid}
       IN IF _slot_conflicts_with_calendar(others, f.doc, f.start, f.end, fbOk)
            THEN /\ ret' = LifeRet(f, "resched", "error", "conflict")
                 /\ fr' = [fr EXCEPT ![p] = IdleFrame]
            ELSE /\ fr' = [fr EXCEPT ![p] = [f EXCEPT !.pc = "r_get"]]
                 /\ ret' = ret
  /\ UNCHANGED <<now, cal, nextId>>

\* lines 824-825: the preflight conflict query on the new interval
ReschedPreflight(p) ==
  /\ fr[p].pc = "r_preflight"
  /\ \E fbOk \in BOOLEAN :
       LET f == [fr[p] EXCEPT !.queries = @ + 1, !.provFail = @ \/ ~ fbOk]
       IN IF _slot_conflicts_with_calendar(cal, f.doc, f.start, f.end, fbOk)
            THEN /\ ret' = LifeRet(f, "resched", "error", "conflict")
                 /\ fr' = [fr EXCEPT ![p] = IdleFrame]
            ELSE /\ fr' = [fr EXCEPT ![p] = [f EXCEPT !.pc = "r_get"]]
                 /\ ret' = ret
  /\ UNCHANGED <<now, cal, nextId>>

\* lines 826-830: load the event by id and check that it is the requester's
ReschedGet(p) ==
  /\ fr[p].pc = "r_get"
  /\ \E ok \in BOOLEAN :
       LET f == [fr[p] EXCEPT !.provFail = @ \/ ~ ok]
           found == EventGet(cal, DB[f.doc].calendar_id, f.eid)
       IN IF ~ ok \/ found = {}
            THEN /\ ret' = LifeRet(f, "resched", "error", "provider_error")
                 /\ fr' = [fr EXCEPT ![p] = IdleFrame]
          ELSE IF \E ev \in found : ~ _event_contains_patient(ev, f.email)
            THEN /\ ret' = LifeRet(f, "resched", "error", "unauthorized")
                 /\ fr' = [fr EXCEPT ![p] = IdleFrame]
            ELSE /\ fr' = [fr EXCEPT ![p] = [f EXCEPT !.pc = "r_update", !.ev = found]]
                 /\ ret' = ret
  /\ UNCHANGED <<now, cal, nextId>>

\* a variant of ReschedUpdate that cancels the event and books a new one
ReschedUpdate_Recreate(p) ==
  /\ fr[p].pc = "r_update"
  /\ \E ok \in BOOLEAN :
       LET f == [fr[p] EXCEPT !.provFail = @ \/ ~ ok]
           found == EventGet(cal, DB[f.doc].calendar_id, f.eid)
       IN IF ~ ok \/ found = {}
            THEN /\ ret' = LifeRet(f, "resched", "error", "provider_error")
                 /\ UNCHANGED <<cal, nextId>>
            ELSE /\ ret' = LifeRet(f, "resched", "ok", NoneStr)
                 /\ cal' = (cal \ found) \cup
                      {[ev EXCEPT !.id = nextId, !.start = f.start, !.end = f.end] : ev \in f.ev}
                 /\ nextId' = nextId + 1
  /\ fr' = [fr EXCEPT ![p] = IdleFrame]
  /\ UNCHANGED now

\* a variant of ReschedUpdate that writes the event as read back onto the
\* calendar whether or not an event of that id is still there
ReschedUpdate_Upsert(p) ==
  /\ fr[p].pc = "r_update"
  /\ \E ok \in BOOLEAN :
       LET f == [fr[p] EXCEPT !.provFail = @ \/ ~ ok]
           found == EventGet(cal, DB[f.doc].calendar_id, f.eid)
       IN IF ~ ok
            THEN /\ ret' = LifeRet(f, "resched", "error", "provider_error")
                 /\ cal' = cal
            ELSE /\ ret' = LifeRet(f, "resched", "ok", NoneStr)
                 /\ cal' = (cal \ found) \cup
                      {[ev EXCEPT !.start = f.start, !.end = f.end] : ev \in f.ev}
  /\ fr' = Outdate([fr EXCEPT ![p] = IdleFrame], p)
  /\ UNCHANGED <<now, nextId>>

\* lines 831-838: set start and end on the event as read and send it back
\* with events().update under the same id
ReschedUpdate(p) ==
  /\ fr[p].pc = "r_update"
  /\ \E ok \in BOOLEAN :
       LET f == [fr[p] EXCEPT !.provFail = @ \/ ~ ok]
           found == EventGet(cal, DB[f.doc].calendar_id, f.eid)
       IN IF ~ ok \/ found = {}
            THEN /\ ret' = LifeRet(f, "resched", "error", "provider_error")
                 /\ cal' = cal
            ELSE /\ ret' = LifeRet(f, "resched", "ok", NoneStr)
                 /\ cal' = (cal \ found) \cup
                      {[ev EXCEPT !.start = f.start, !.end = f.end] : ev \in f.ev}
  /\ fr' = Outdate([fr EXCEPT ![p] = IdleFrame], p)
  /\ UNCHANGED <<now, nextId>>

\* the new intervals of reschedule requests: from the first instant (too
\* early) or from a whole minute of Tuesday's window, no, one or two minutes
\* long, and one that does not parse
ReschedTimes ==
  {<<s, s + Minutes(m)>> :
     s \in {FirstInstant} \cup {Combine(1, k) : k \in 0 .. 2}, m \in 0 .. 2}
    \cup {<<BadTime, FirstInstant>>}

\* the reschedule requests of any caller
ReschedRequests ==
  {<<doctor_id, event_id, se[1], se[2], patient_email>> :
     doctor_id \in DoctorIds, event_id \in EventIds, se \in ReschedTimes,
     patient_email \in Requesters}

\* service.events().list(calendarId, timeMin, timeMax, singleEvents): the
\* events of the calendar that end after timeMin and start before timeMax
EventsList(calendar, calendar_id, time_min, time_max) ==
  {e \in calendar : e.cal = calendar_id /\ e.end > time_min /\ e.start < time_max}

\* the calendars list_appointments_tool queries, lines 737-745: the doctor's
\* when a doctor_id is given, else every doctor's
ListCalendars(doctor_id) ==
  IF doctor_id # NoneStr THEN {DB[doctor_id].calendar_id}
  ELSE {DB[d].calendar_id : d \in DOMAIN DB}

\* a variant of list_appointments_tool without the email test of lines 731-732
list_appointments_tool_NoEmailGate(calendar, doctor_id, patient_email, window_days, nowv, svcOk, failing) ==
  IF ~ svcOk
    THEN [status |-> "error", err |-> "service_error", listed |-> {}, queries |-> 0,
          provFail |-> TRUE]
  ELSE IF doctor_id # NoneStr /\ ~ DoctorKnown(doctor_id)
    THEN [status |-> "error", err |-> "unknown_doctor", listed |-> {}, queries |-> 0,
          provFail |-> FALSE]
  ELSE LET calendars == ListCalendars(doctor_id)
           events == UNION {EventsList(calendar, c, nowv, nowv + window_days * TicksPerDay) :
                              c \in calendars \ failing}
       IN [status |-> "ok", err |-> NoneStr,
           listed |-> {ev.id : ev \in {e \in events : _event_contains_patient(e, patient_email)}},
           queries |-> Cardinality(calendars),
           provFail |-> calendars \cap failing # {}]

\* list_appointments_tool(doctor_id, patient_email, window_days), lines
\* 731-773, called at nowv on the calendar; svcOk is whether _google_service
\* gives a service, failing the calendars whose events().list raises: such a
\* calendar is skipped (lines 755-757).  listed are the event ids returned,
\* queries the number of events().list calls made.
list_appointments_tool(calendar, doctor_id, patient_email, window_days, nowv, svcOk, failing) ==
  IF patient_email = << >>
    THEN [status |-> "error", err |-> "email_required", listed |-> {}, queries |-> 0,
          provFail |-> FALSE]
  ELSE IF ~ svcOk
    THEN [status |-> "error", err |-> "service_error", listed |-> {}, queries |-> 0,
          provFail |-> TRUE]
  ELSE IF doctor_id # NoneStr /\ ~ DoctorKnown(doctor_id)
    THEN [status |-> "error", err |-> "unknown_doctor", listed |-> {}, queries |-> 0,
          provFail |-> FALSE]
  ELSE LET calendars == ListCalendars(doctor_id)
           events == UNION {EventsList(calendar, c, nowv, nowv + window_days * TicksPerDay) :
                              c \in calendars \ failing}
       IN [status |-> "ok", err |-> NoneStr,
           listed |-> {ev.id : ev \in {e \in events : _event_contains_patient(e, patient_email)}},
           queries |-> Cardinality(calendars),
           provFail |-> calendars \cap failing # {}]

\* the calendar ids of the directory
CalendarIds == {DB[d].calendar_id : d \in DOMAIN DB}

\* the answer of a list call, as a return value; cancelled is the event id of
\* the cancel the call follows, if it follows one
ListRet(doctor_id, patient_email, window_days, svcOk, failing, cancelled) ==
  LET r == list_appointments_tool(cal, doctor_id, patient_email, window_days, now, svcOk, failing)
  IN [NoRet EXCEPT !.op = "list", !.doc = doctor_id, !.who = patient_email,
                   !.window_days = window_days, !.status = r.status, !.err = r.err,
                   !.listed = r.listed, !.queries = r.queries, !.provFail = r.provFail,
                   !.pre = cal, !.start = now, !.event_id = cancelled]

\* a caller lists appointments, with any doctor_id or none, any email or none
ListAppointments ==
  /\ \A p \in Procs : fr[p].pc = "idle"
  /\ ret = NoRet
  /\ \E doctor_id \in DoctorIds \cup {NoneStr}, patient_email \in Requesters,
        window_days \in 1 .. MaxWindowDays, svcOk \in BOOLEAN,
        failing \in SUBSET CalendarIds :
       ret' = ListRet(doctor_id, patient_email, window_days, svcOk, failing, NoneInt)
  /\ UNCHANGED <<now, cal, nextId, fr>>

\* a variant of ListAfterCancel that answers from the calendar as it was when
\* the cancel began
ListAfterCancel_Cached ==
  /\ \A p \in Procs : fr[p].pc = "idle"
  /\ ret.op = "cancel" /\ ret.status = "ok"
  /\ \E window_days \in 1 .. MaxWindowDays, svcOk \in BOOLEAN,
        failing \in SUBSET CalendarIds :
       LET r == list_appointments_tool(ret.pre, ret.doc, ret.who, window_days, now, svcOk, failing)
       IN ret' = [ListRet(ret.doc, ret.who, window_days, svcOk, failing, ret.event_id)
                    EXCEPT !.listed = r.listed]
  /\ UNCHANGED <<now, cal, nextId, fr>>

\* the patient whose cancel has just returned ok lists the appointments at
\* the same doctor
ListAfterCancel ==
  /\ \A p \in Procs : fr[p].pc = "idle"
  /\ ret.op = "cancel" /\ ret.status = "ok"
  /\ \E window_days \in 1 .. MaxWindowDays, svcOk \in BOOLEAN,
        failing \in SUBSET CalendarIds :
       ret' = ListRet(ret.doc, ret.who, window_days, svcOk, failing, ret.event_id)
  /\ UNCHANGED <<now, cal, nextId, fr>>

\* mcp_call of api.py, lines 445-457: the direct invocation of the tool raised
\* (here after its insert, while it prepares the notifications); the except
\* clause drops the exception and the tool is invoked again, through the stdio
\* server, with the same arguments
BookRaise(p) ==
  /\ fr[p].pc = "notify"
  /\ fr[p].invocation = 1
  /\ LET f == fr[p]
     IN BookStartAs(p, <<f.doc, f.start, f.end, f.email, f.meet>>, FALSE, 2)

\* the bodies posted to /book for Tuesday 00:00 to 00:02, one or two minutes long
ApiRequests ==
  {<<"D1", s, s + Minutes(m), GoodEmail, meet>> :
     s \in Combine(1, 0) .. Combine(1, 2), m \in 1 .. 2, meet \in BOOLEAN}

\* ------------------------------------------------------------ specifications
\* one request at a time: a call starts only when the previous one has ended
Next ==
  \/ Tick
  \/ Availability
  \/ AvailabilityAgain
  \/ AvailabilityRange
  \/ Return
  \/ BookCall(1, BookRequests)
  \/ BookListed(1)
  \/ BookPreflight(1)
  \/ BookGuard(1)
  \/ BookInsert(1)
  \/ BookRetry(1)
  \/ BookNotify(1)

Spec == Init /\ [][Next]_vars

\* the bookings of the one patient whose appointments the lifecycle follows
LifeBookRequests ==
  {<<"D1", Combine(1, k), Combine(1, k) + Minutes(m), GoodEmail, FALSE>> :
     k \in 0 .. 2, m \in 1 .. 2}
    \cup {<<"D1", Combine(2, 0), Combine(2, 0) + Minutes(1), GoodEmail, FALSE>>}

\* one caller at a time books, cancels and reschedules while time passes
LifeNext ==
  \/ Tick
  \/ Return
  \/ BookCall(1, LifeBookRequests)
  \/ BookPreflight(1)
  \/ BookGuard(1)
  \/ BookInsert(1)
  \/ BookRetry(1)
  \/ BookNotify(1)
  \/ CancelCall(1, CancelRequests)
  \/ CancelGet(1)
  \/ CancelDelete(1)
  \/ ReschedCall(1, ReschedRequests)
  \/ ReschedPreflight(1)
  \/ ReschedGet(1)
  \/ ReschedUpdate(1)
  \/ ListAppointments
  \/ ListAfterCancel

LifeSpec == Init /\ [][LifeNext]_vars

\* requests to each tool for a doctor of the directory and for one that is
\* not in it, well-formed and not: a booking of Tuesday's first minute, one
\* with an unparsable start and no email; reschedules onto Tuesday's second
\* minute or an unparsable start, with the booker's email or none
DirBookRequests ==
  {<<doctor_id, Combine(1, 0), Combine(1, 0) + Minutes(1), GoodEmail, FALSE>> :
     doctor_id \in DoctorIds}
    \cup {<<doctor_id, BadTime, FirstInstant, << >>, FALSE>> : doctor_id \in DoctorIds}
DirReschedRequests ==
  {<<doctor_id, event_id, se[1], se[2], patient_email>> :
     doctor_id \in DoctorIds, event_id \in EventIds,
     se \in {<<Combine(1, 1), Combine(1, 1) + Minutes(1)>>, <<BadTime, FirstInstant>>},
     patient_email \in {GoodEmail, << >>}}

\* one caller at a time uses each of the four tools that take a doctor_id
DirNext ==
  \/ Tick
  \/ Return
  \/ Availability
  \/ AvailabilityRange
  \/ BookCall(1, DirBookRequests)
  \/ BookPreflight(1)
  \/ BookGuard(1)
  \/ BookInsert(1)
  \/ BookRetry(1)
  \/ BookNotify(1)
  \/ CancelCall(1, CancelRequests)
  \/ CancelGet(1)
  \/ CancelDelete(1)
  \/ ReschedCall(1, DirReschedRequests)
  \/ ReschedPreflight(1)
  \/ ReschedGet(1)
  \/ ReschedUpdate(1)

DirSpec == Init /\ [][DirNext]_vars

\* new intervals whose end is a minute before their start, starting at
\* Tuesday 00:00 (the end is on Monday) or 00:01
ReversedTimes ==
  {<<Combine(1, k), Combine(1, k) - Minutes(1)>> : k \in 0 .. 1}

\* the owner's bookings of Tuesday's first two minutes, cancels of any id, and
\* reschedules of any id onto any interval of ReschedTimes or ReversedTimes
WindowBookRequests ==
  {<<"D1", Combine(1, k), Combine(1, k) + Minutes(1), GoodEmail, FALSE>> : k \in 0 .. 1}
WindowCancelRequests ==
  {<<"D1", event_id, GoodEmail>> : event_id \in EventIds}
WindowReschedRequests ==
  {<<"D1", event_id, se[1], se[2], GoodEmail>> :
     event_id \in EventIds, se \in ReschedTimes \cup ReversedTimes}

\* one caller at a time books, reschedules and cancels while time passes
WindowNext ==
  \/ Tick
  \/ Return
  \/ BookCall(1, WindowBookRequests)
  \/ BookPreflight(1)
  \/ BookGuard(1)
  \/ BookInsert(1)
  \/ BookRetry(1)
  \/ BookNotify(1)
  \/ CancelCall(1, WindowCancelRequests)
  \/ CancelGet(1)
  \/ CancelDelete(1)
  \/ ReschedCall(1, WindowReschedRequests)
  \/ ReschedPreflight(1)
  \/ ReschedGet(1)
  \/ ReschedUpdate(1)

WindowSpec == Init /\ [][WindowNext]_vars

\* the same address as GoodEmail in another letter case
UpperEmail == <<"A", "@", "B", ".", "c">>

\* bookings of Tuesday's first two minutes in either letter case of the
\* patient's email, with and without send_invitations, and one of
\* Wednesday's first minute, a day later; cancels and lists in
\* either letter case, by a stranger and without email
RoundBookRequests ==
  {<<"D1", Combine(1, k), Combine(1, k) + Minutes(1), email, FALSE, send_invitations>> :
     k \in 0 .. 1, email \in {GoodEmail, UpperEmail}, send_invitations \in BOOLEAN}
    \cup {<<"D1", Combine(2, 0), Combine(2, 0) + Minutes(1), GoodEmail, FALSE, TRUE>>}
RoundRequesters == {GoodEmail, UpperEmail, OtherEmail, << >>}
RoundCancelRequests ==
  {<<"D1", event_id, patient_email>> :
     event_id \in EventIds, patient_email \in RoundRequesters}

\* a patient lists the appointments at a doctor or at all doctors
RoundList ==
  /\ \A p \in Procs : fr[p].pc = "idle"
  /\ ret = NoRet
  /\ \E doctor_id \in {"D1", NoneStr}, patient_email \in RoundRequesters,
        window_days \in 1 .. MaxWindowDays, svcOk \in BOOLEAN,
        failing \in SUBSET CalendarIds :
       ret' = ListRet(doctor_id, patient_email, window_days, svcOk, failing, NoneInt)
  /\ UNCHANGED <<now, cal, nextId, fr>>

\* one caller at a time books, lists and cancels while time passes
RoundNext ==
  \/ Tick
  \/ Return
  \/ BookCall(1, RoundBookRequests)
  \/ BookPreflight(1)
  \/ BookGuard(1)
  \/ BookInsert(1)
  \/ BookRetry(1)
  \/ BookNotify(1)
  \/ RoundList
  \/ CancelCall(1, RoundCancelRequests)
  \/ CancelGet(1)
  \/ CancelDelete(1)

RoundSpec == Init /\ [][RoundNext]_vars

\* the requests of two callers busy with the same appointments: the first
\* books one minute at Tuesday 00:00; both cancel any id as the patient who
\* booked, and the second reschedules any id onto the minute at 00:01 or at
\* 00:02
LifeRaceBookRequests ==
  {<<"D1", Combine(1, 0), Combine(1, 0) + Minutes(1), GoodEmail, FALSE>>}
LifeRaceCancelRequests ==
  {<<"D1", event_id, GoodEmail>> : event_id \in EventIds}
LifeRaceReschedRequests ==
  {<<"D1", event_id, Combine(1, k), Combine(1, k) + Minutes(1), GoodEmail>> :
     event_id \in EventIds, k \in 1 .. 2}

\* two callers whose cancels interleave step by step with each other, with
\* the bookings of the first and with the reschedules of the second
LifeRaceNext ==
  \/ Return
  \/ BookCall(1, LifeRaceBookRequests)
  \/ BookPreflight(1)
  \/ BookGuard(1)
  \/ BookInsert(1)
  \/ BookRetry(1)
  \/ BookNotify(1)
  \/ \E p \in Procs :
       \/ CancelCall(p, LifeRaceCancelRequests)
       \/ CancelGet(p)
       \/ CancelDelete(p)
  \/ ReschedCall(2, LifeRaceReschedRequests)
  \/ ReschedPreflight(2)
  \/ ReschedGet(2)
  \/ ReschedUpdate(2)

LifeRaceSpec == Init /\ [][LifeRaceNext]_vars

\* requests are served concurrently, each on its own thread
RaceNext ==
  \/ Return
  \/ \E p \in Procs :
       \/ BookCall(p, RaceRequests)
       \/ BookPreflight(p)
       \/ BookGuard(p)
       \/ BookInsert(p)
       \/ BookRetry(p)
       \/ BookNotify(p)

RaceSpec == Init /\ [][RaceNext]_vars

\* the /book endpoint: every request goes through mcp_call
ApiNext ==
  \/ Tick
  \/ Return
  \/ BookCall(1, ApiRequests)
  \/ BookPreflight(1)
  \/ BookGuard(1)
  \/ BookInsert(1)
  \/ BookRetry(1)
  \/ BookNotify(1)
  \/ BookRaise(1)

ApiSpec == Init /\ [][ApiNext]_vars

\* ==================================================================== claims
\* the event of the calendar with id i, if any
EventsWithId(i) == {e \in cal : e.id = i}

\* the request of the ended book call passed every check that needs no calendar
LocalOk(q) == q.known /\ q.positive /\ q.emailOk /\ ~ q.early /\ q.contained

C2_ListedSlotBooks ==
  ret.op = "book" /\ ret.viaAvail /\ ret.steady /\ ~ ret.provFail => ret.status = "ok"

\* C3 as stated: a booking whose interval overlaps a busy interval of the
\* doctor's calendar fails with the Conflict error and inserts no event.
C3_BusyGivesConflict ==
  ret.op = "book" /\ ret.req.positive /\ ret.req.busy =>
    ret.err = "conflict" /\ ret.made = {}

\* C3 amended: a booking whose interval overlaps a busy interval fails with an
\* error and inserts no event; the error is Conflict whenever the request
\* passes the checks made before the preflight query (doctor, timestamps,
\* email, lead time, schedule window), and otherwise that of the first failing one.
C3_BusyFailsConflictAfterLocalChecks ==
  ret.op = "book" /\ ret.req.positive /\ ret.req.busy =>
    /\ ret.status = "error" /\ ret.made = {}
    /\ LocalOk(ret.req) <=> ret.err = "conflict"

\* C3 witness: a request that passed the local checks met a busy interval
C3_Witness ==
  ret.op = "book" /\ ret.req.busy /\ LocalOk(ret.req) /\ ret.err = "conflict"

\* C4 as stated: a booking of an interval not contained in one schedule window
\* of the doctor for that weekday fails with ScheduleViolation, without a write.
C4_OutsideGivesScheduleViolation ==
  ret.op = "book" /\ ret.req.known /\ ret.req.positive /\ ~ ret.req.contained =>
    ret.err = "outside_hours" /\ ret.made = {}

\* C4 amended: a booking of an interval not contained in one schedule window
\* always fails, whatever the busy state, with no calendar query and no write;
\* the error is ScheduleViolation whenever the doctor is known, the timestamps
\* parse with end > start, the email is well formed and the start is not
\* before the lead cutoff, and otherwise that of the first of these that fails.
C4_OutsideFailsAfterEarlierChecks ==
  ret.op = "book" /\ ~ ret.req.contained =>
    /\ ret.status = "error" /\ ret.made = {} /\ ret.queries = 0 /\ ret.attempts = << >>
    /\ (ret.req.known /\ ret.req.positive /\ ret.req.emailOk /\ ~ ret.req.early)
         <=> ret.err = "outside_hours"

\* C4 witness: an interval reaching out of the window over a busy interval is
\* refused as outside clinic hours
C4_Witness ==
  ret.op = "book" /\ ret.err = "outside_hours" /\ ret.req.busy

\* C5 as stated: a booking whose start is before now + minimum lead time fails
\* with the lead-time violation, without a write.
C5_EarlyGivesLeadTime ==
  ret.op = "book" /\ ret.req.early => ret.err = "lead_time" /\ ret.made = {}

\* C5 amended: a booking whose start is before now + minimum lead time always
\* fails, with no calendar query and no write; when the doctor is known, the
\* timestamps parse with end > start and the email is well formed, the error is
\* the lead-time violation exactly when the start is before the cutoff (a start
\* at or after the cutoff passes this check); otherwise the error is that of
\* the first of those checks that fails.
C5_EarlyFailsAfterEarlierChecks ==
  ret.op = "book" =>
    /\ ret.req.early =>
         ret.status = "error" /\ ret.made = {} /\ ret.queries = 0 /\ ret.attempts = << >>
    /\ ret.req.known /\ ret.req.positive /\ ret.req.emailOk =>
         (ret.req.early <=> ret.err = "lead_time")
    /\ ret.err = "lead_time" => ret.req.early

\* C5 witness: a start before the cutoff, inside clinic hours, is refused
C5_Witness ==
  ret.op = "book" /\ ret.err = "lead_time" /\ ret.req.contained

\* the interval [start, end) is a candidate of the tiling of one window of the
\* doctor's day at granularity end - start
OnGrid(e) ==
  LET date == e.start \div TicksPerDay
      wins == Windows("D1", date)
      d == e.end - e.start
  IN \E i \in DOMAIN wins : \E k \in 0 .. TicksPerDay :
       /\ e.start = Combine(date, wins[i][1]) + k * d
       /\ e.end <= Combine(date, wins[i][2])

\* C6: every event a booking has committed starts on the tiling grid that the
\* engine recomputes for that day at granularity end - start.
C6_CommittedOnlyOnGrid ==
  \A e \in cal : OnGrid(e)

\* two distinct events of one calendar intersect
Overlapping(e1, e2) ==
  e1 # e2 /\ e1.cal = e2.cal /\ e1.start < e2.end /\ e1.end > e2.start

\* C7: two overlapping events come on a doctor's calendar only through the
\* race: the later of them was inserted by a call whose preflight answer was
\* outdated by another call's insert before it inserted.
C7_OverlapOnlyByRace ==
  \A e1, e2 \in cal : Overlapping(e1, e2) /\ e1.id < e2.id => e2.raced

\* C7 witness: two book calls for the same doctor and the same interval both
\* inserted
C7_Witness ==
  \E e1, e2 \in cal : Overlapping(e1, e2) /\ e1.start = e2.start /\ e1.end = e2.end

\* the error of the first check that the request fails, among those that need
\* no calendar
FirstLocalFailure(q) ==
  IF ~ q.known THEN "unknown_doctor"
  ELSE IF ~ q.parsed THEN "invalid_format"
  ELSE IF ~ q.positive THEN "end_not_after_start"
  ELSE IF ~ q.emailOk THEN "invalid_email"
  ELSE IF q.early THEN "lead_time"
  ELSE IF ~ q.contained THEN "outside_hours"
  ELSE NoneStr

\* C8: the checks run in the order doctor, timestamps, email, lead time,
\* schedule window, preflight query, slot-list guard, insert: the error is that
\* of the first failing check, no calendar query is issued unless the first
\* five pass, the preflight query comes before the guard's query and both
\* before any insert.
C8_CheckOrder ==
  /\ ret.op = "book" =>
       /\ FirstLocalFailure(ret.req) # NoneStr =>
            /\ ret.err = FirstLocalFailure(ret.req)
            /\ ret.queries = 0 /\ ret.attempts = << >>
       /\ FirstLocalFailure(ret.req) = NoneStr =>
            /\ ret.err \in {"conflict", "not_a_slot", "insert_error", NoneStr}
            /\ ret.err = "conflict" => ret.queries = 1 /\ ret.attempts = << >>
            /\ ret.err = "not_a_slot" => ret.queries = 2 /\ ret.attempts = << >>
            /\ ret.status = "error" /\ ret.req.busy => ret.err = "conflict"
            /\ ret.attempts # << >> =>
                 ret.queries = IF ret.end - ret.start >= TicksPerMinute THEN 2 ELSE 1
  /\ \A p \in Procs :
       /\ fr[p].pc = "preflight" => fr[p].queries = 0
       /\ fr[p].pc = "guard" => fr[p].queries = 1
       /\ fr[p].attempts # << >> => fr[p].queries >= 1

\* C8 witness: a request failing the email, lead-time and schedule checks at
\* once is answered with the email error
C8_Witness ==
  /\ ret.op = "book" /\ ret.err = "invalid_email"
  /\ ret.req.early /\ ~ ret.req.contained

\* the inserts a book call tried: at most two; a second one only after the
\* first failed on conferencing, and without the conferencing request
RetryRule(attempts, status, err) ==
  /\ Len(attempts) <= 2
  /\ Len(attempts) = 2 =>
       attempts[1].out = "conference_error" /\ ~ attempts[2].conf
  /\ \A i \in DOMAIN attempts :
       /\ attempts[i].out = "ok" => i = Len(attempts)
       /\ attempts[i].out = "other_error" => i = Len(attempts)

\* C9: a book call tries the insert at most twice; the second try happens only
\* after a conferencing error of the first and carries no conferencing request;
\* its failure, and any other failure of the first, ends the call with an error.
C9_RetryOnceOnConferencing ==
  /\ ret.op = "book" =>
       /\ RetryRule(ret.attempts, ret.status, ret.err)
       /\ ret.attempts # << >> =>
            /\ ret.attempts[Len(ret.attempts)].out = "other_error" =>
                 ret.status = "error" /\ ret.err = "insert_error" /\ ret.made = {}
            /\ ret.attempts[Len(ret.attempts)].out = "ok" => ret.status = "ok"
            /\ ret.attempts[Len(ret.attempts)].out # "conference_error"
  /\ \A p \in Procs :
       /\ RetryRule(fr[p].attempts, NoneStr, NoneStr)
       /\ fr[p].pc = "retry" =>
            Len(fr[p].attempts) = 1 /\ fr[p].attempts[1].out = "conference_error"
       /\ fr[p].pc \in {"preflight", "guard", "insert"} => fr[p].attempts = << >>

\* C9 witness: the second insert, made after a conferencing error of an insert
\* that carried the conferencing request, failed and ended the call
C9_Witness ==
  /\ ret.op = "book" /\ ret.status = "error" /\ Len(ret.attempts) = 2
  /\ ret.attempts[1].conf

\* C10: when a notification mail fails after the insert, the call still
\* returns success with the id of the event, which stays on the calendar, and
\* reports the failure in smtp_status and smtp_error only.
C10_NotifyFailureKeepsBooking ==
  /\ ret.op = "book" /\ ret.sends # << >> =>
       /\ ret.status = "ok" /\ ret.err = NoneStr
       /\ ret.event_id \in ret.made /\ EventsWithId(ret.event_id) # {}
       /\ (\E i \in DOMAIN ret.sends : ~ ret.sends[i])
            <=> ret.smtp_status = "failed"
       /\ (\A i \in DOMAIN ret.sends : ret.sends[i])
            <=> (ret.smtp_status = "sent" /\ ret.smtp_error = NoneStr)
       /\ ret.smtp_status = "failed" => ret.smtp_error # NoneStr
  /\ ret.op = "book" /\ ret.status = "ok" => Len(ret.sends) = 2
  /\ \A i \in 1 .. nextId - 1 : EventsWithId(i) # {}

\* C10 witness: both mails failed and the booking stands
C10_Witness ==
  /\ ret.op = "book" /\ ret.status = "ok" /\ ret.sends = <<FALSE, FALSE>>
  /\ ret.smtp_status = "failed" /\ EventsWithId(ret.event_id) # {}


\* the book call ended at its preflight free/busy query, which the provider
\* did not answer: it issued that one query, tried no insert, and a provider
\* call failed
PreflightFailed(r) ==
  r.op = "book" /\ r.queries = 1 /\ r.attempts = << >> /\ r.provFail

\* C11: a book call whose preflight free/busy query fails ends with an error
\* that is not the Conflict error, and inserts nothing: the failed query is
\* taken neither as "slot busy" nor as "slot free".
C11_PreflightFailureNotConflict ==
  PreflightFailed(ret) => ret.status = "error" /\ ret.err # "conflict" /\ ret.made = {}

\* C12: for one booking request the calling layer invokes
\* appointment_book_tool at most once, also when the first invocation raised
\* after its insert.
C12_BookInvokedOnce ==
  /\ \A p \in Procs : fr[p].invocation <= 1
  /\ ret.invocation <= 1

\* the availability call ended with the answer of a day that has schedule
\* windows, after the provider answered its free/busy query
AvailAnswered(r) ==
  /\ r.op = "avail" /\ r.status = "ok"
  /\ Windows(r.doc, r.date) # << >>
  /\ ~ r.provFail

\* candidate i of the answer intersects an event of the doctor's calendar
\* (half-open: start < busy end and end > busy start)
CandidateBusy(r, i) ==
  \E e \in cal : /\ e.cal = DB[r.doc].calendar_id
                 /\ r.ranges[i][1] < e.end /\ r.ranges[i][2] > e.start

\* the slot list of the answer is exactly the "%H:%M" starts of the candidates
\* with index in idx, each once, in ascending order
SlotsAre(r, idx) ==
  /\ Len(r.slots) = Cardinality(idx)
  /\ Range(r.slots) = {HM(r.ranges[i][1]) : i \in idx}
  /\ \A j, k \in DOMAIN r.slots : j < k => r.slots[j] < r.slots[k]

\* C13: for a date other than today (no lead cutoff applies), availability
\* returns exactly the candidates that intersect no busy interval of the
\* calendar under half-open overlap: a candidate that only touches a busy
\* interval is listed, every candidate that overlaps one is absent.
C13_FreeIffNoHalfOpenOverlap ==
  AvailAnswered(ret) /\ ret.date # DateOf(now) =>
    SlotsAre(ret, {i \in DOMAIN ret.ranges : ~ CandidateBusy(ret, i)})

\* C13 witness: on a date other than today one candidate is busy and absent,
\* and a candidate that starts where an event ends is listed
C13_Witness ==
  /\ AvailAnswered(ret) /\ ret.date # DateOf(now)
  /\ \E i, j \in DOMAIN ret.ranges :
       /\ CandidateBusy(ret, i) /\ HM(ret.ranges[i][1]) \notin Range(ret.slots)
       /\ \E e \in cal : e.end = ret.ranges[j][1]
       /\ HM(ret.ranges[j][1]) \in Range(ret.slots)

\* the availability call generated the candidates of a day with schedule windows
AvailTiled(r) ==
  r.op = "avail" /\ r.status = "ok" /\ Windows(r.doc, r.date) # << >>

\* the windows of the answer's day that contain the interval c entirely
WindowsHolding(r, c) ==
  LET wins == Windows(r.doc, r.date)
  IN {w \in DOMAIN wins : /\ Combine(r.date, wins[w][1]) <= c[1]
                          /\ c[2] <= Combine(r.date, wins[w][2])}

\* C14: every candidate slot generated for a day with windows lies entirely
\* within exactly one window, and no two candidates overlap.
C14_CandidatesInOneWindowDisjoint ==
  AvailTiled(ret) =>
    /\ \A i \in DOMAIN ret.ranges :
         /\ ret.ranges[i][1] < ret.ranges[i][2]
         /\ Cardinality(WindowsHolding(ret, ret.ranges[i])) = 1
    /\ \A i, j \in DOMAIN ret.ranges :
         i # j => ~ (ret.ranges[i][1] < ret.ranges[j][2] /\ ret.ranges[i][2] > ret.ranges[j][1])

\* C14 witness: candidates were generated in two different windows of a day
C14_Witness ==
  /\ AvailTiled(ret)
  /\ \E i, j \in DOMAIN ret.ranges :
       WindowsHolding(ret, ret.ranges[i]) # WindowsHolding(ret, ret.ranges[j])

\* the slots ws + k*d, k >= 0, that end no later than the window end, for
\* window w of the answer's day and the answer's slot size
SlotsOfWindow(r, w) ==
  LET ws == Combine(r.date, Windows(r.doc, r.date)[w][1])
      we == Combine(r.date, Windows(r.doc, r.date)[w][2])
      d == r.sm * TicksPerMinute
  IN {<<ws + k * d, ws + (k + 1) * d>> : k \in {n \in 0 .. TicksPerDay : ws + (n + 1) * d <= we}}

\* C15: the candidates are exactly, for each window [ws, we), the slots
\* ws + k*d with ws + (k+1)*d <= we, each once, in ascending order window by
\* window: a slot ending at the window end is there, a shorter tail is not.
C15_TilingExact ==
  AvailTiled(ret) =>
    /\ Range(ret.ranges) = UNION {SlotsOfWindow(ret, w) : w \in DOMAIN Windows(ret.doc, ret.date)}
    /\ \A i, j \in DOMAIN ret.ranges :
         i < j => /\ ret.ranges[i][1] < ret.ranges[j][1]
                  /\ \A wi \in WindowsHolding(ret, ret.ranges[i]) :
                       \A wj \in WindowsHolding(ret, ret.ranges[j]) : wi <= wj

\* C15 witness: a day with a window shorter than the slot size, which yields
\* nothing, and a window whose last slot ends exactly at the window end
C15_Witness ==
  /\ AvailTiled(ret)
  /\ \E w \in DOMAIN Windows(ret.doc, ret.date) : SlotsOfWindow(ret, w) = {}
  /\ \E i \in DOMAIN ret.ranges : \E w \in DOMAIN Windows(ret.doc, ret.date) :
       ret.ranges[i][2] = Combine(ret.date, Windows(ret.doc, ret.date)[w][2])

\* the start of candidate i of the answer is at or after now + minimum lead time
AfterCutoff(r, i) == r.ranges[i][1] >= now + MIN_LEAD_MINUTES * TicksPerMinute

\* C16: when the requested date is today, availability returns no slot that
\* starts before now + minimum lead time, and returns every candidate at or
\* after that cutoff that is not busy.
C16_TodayOnlyAfterCutoff ==
  AvailAnswered(ret) /\ ret.date = DateOf(now) =>
    SlotsAre(ret, {i \in DOMAIN ret.ranges : AfterCutoff(ret, i) /\ ~ CandidateBusy(ret, i)})

\* C16 witness: today's answer lists a slot and leaves out a free candidate
\* that starts before the cutoff
C16_Witness ==
  /\ AvailAnswered(ret) /\ ret.date = DateOf(now) /\ ret.slots # << >>
  /\ \E i \in DOMAIN ret.ranges :
       /\ ~ AfterCutoff(ret, i) /\ ~ CandidateBusy(ret, i)
       /\ HM(ret.ranges[i][1]) \notin Range(ret.slots)

\* C17: when the free list of a day with windows is empty after a successful
\* query, the code is "fully booked" exactly when some candidate starts at or
\* after the lead cutoff (all such candidates being busy), and "no future
\* slots" exactly when every candidate starts before the lead cutoff.
C17_EmptyCauseCodes ==
  AvailAnswered(ret) /\ ret.slots = << >> =>
    /\ ret.code \in {"fully_booked", "no_future_slots"}
    /\ ret.code = "fully_booked" <=>
         /\ \E i \in DOMAIN ret.ranges : AfterCutoff(ret, i)
         /\ \A i \in DOMAIN ret.ranges : AfterCutoff(ret, i) => CandidateBusy(ret, i)
    /\ ret.code = "no_future_slots" <=>
         \A i \in DOMAIN ret.ranges : ~ AfterCutoff(ret, i)

\* C18: for a date whose weekday has no windows, availability returns an empty
\* slot list with the code "no schedule" and issues no calendar query; that
\* code is given for no other day.
C18_NoScheduleSignal ==
  ret.op = "avail" /\ ret.status = "ok" =>
    /\ Windows(ret.doc, ret.date) = << >> =>
         ret.slots = << >> /\ ret.code = "no_schedule" /\ ret.queries = 0
    /\ ret.code = "no_schedule" => Windows(ret.doc, ret.date) = << >>

\* C18 witness: availability was asked about a day without clinic hours
C18_Witness ==
  /\ ret.op = "avail" /\ ret.status = "ok" /\ ret.code = "no_schedule"
  /\ Windows(ret.doc, ret.date) = << >>

\* C19: a single-date availability call whose free/busy query fails answers
\* with an empty list under the code "freebusy_error", which no answered
\* query and no day without windows gets.
C19_QueryFailureOwnCode ==
  ret.op = "avail" /\ ret.status = "ok" =>
    /\ ret.provFail => ret.code = "freebusy_error" /\ ret.slots = << >>
    /\ ret.code = "freebusy_error" => ret.provFail /\ ret.queries = 1

\* C19 witness: the query failed for a day on which the calendar has an event
C19_Witness ==
  /\ ret.op = "avail" /\ ret.provFail /\ ret.code = "freebusy_error"
  /\ \E e \in cal : DateOf(e.start) = ret.date

\* C20: in the answer to a date-range availability request, a day whose
\* free/busy query failed is not reported as a day without slots.  The answer
\* holds nothing about a day but its slot list, so a failed day can be told
\* from an empty one only if its list is not the empty list.
C20_RangeFailureNotEmptyDay ==
  ret.op = "range" /\ ret.status = "ok" =>
    \A d \in ret.failedDays : ret.dates[d] # << >>

\* what the single-date resolver yields for day d of a date-range answer r
DayAnswer(r, d) ==
  _compute_free_slots_for_date(cal, r.doc, d, r.sm, now, d \notin r.failedDays)

\* C21: the result of a date-range request maps every date from date to
\* end_date inclusive (in either order), and no other, to the slot list the
\* single-date resolver yields for that day; a day without schedule maps to
\* the empty list, a day the provider answered to its free candidates.
C21_RangeMapsEveryDay ==
  ret.op = "range" /\ ret.status = "ok" =>
    /\ DOMAIN ret.dates = {d \in Dates : \/ ret.date <= d /\ d <= ret.end_date
                                         \/ ret.end_date <= d /\ d <= ret.date}
    /\ \A d \in DOMAIN ret.dates :
         /\ ret.dates[d] = DayAnswer(ret, d).slots
         /\ Windows(ret.doc, d) = << >> => ret.dates[d] = << >>
         /\ Windows(ret.doc, d) # << >> /\ d \notin ret.failedDays =>
              LET a == [doc |-> ret.doc, date |-> d, sm |-> ret.sm,
                        slots |-> ret.dates[d], ranges |-> DayAnswer(ret, d).ranges]
              IN SlotsAre(a, {i \in DOMAIN a.ranges :
                                /\ ~ CandidateBusy(a, i)
                                /\ d = DateOf(now) => AfterCutoff(a, i)})

\* C21 witness: a range given with end_date before date covers a day with free
\* slots and a day without clinic hours
C21_Witness ==
  /\ ret.op = "range" /\ ret.status = "ok" /\ ret.end_date < ret.date
  /\ \E d \in DOMAIN ret.dates : ret.dates[d] # << >>
  /\ \E d \in DOMAIN ret.dates : Windows(ret.doc, d) = << >>

\* an availability call has just ended, answering a caller whose previous
\* answer to the same question is still standing
Requeried == ret.op = "avail" /\ ret'.op = "avail" /\ ret'.invocation = 2

\* the two answers are the same in everything the caller receives
SameAnswer(a, b) ==
  /\ a.status = b.status /\ a.err = b.err
  /\ a.slots = b.slots /\ a.code = b.code

C23_NonPositiveDurationRejected ==
  /\ ret.op = "avail" /\ DoctorKnown(ret.doc) /\ ret.sm <= 0 =>
       ret.status = "error" /\ ret.slots = << >>
  /\ ret.op = "book" /\ ret.req.known /\ ret.req.parsed /\ ~ ret.req.positive =>
       ret.status = "error" /\ ret.err = "end_not_after_start" /\ ret.made = {}

\* the events of the calendar the call began with that have the id asked about
Target(r) ==
  IF DoctorKnown(r.doc)
    THEN {e \in r.pre : e.cal = DB[r.doc].calendar_id /\ e.id = r.event_id}
    ELSE {}

\* C24: cancel deletes an event only after loading it by id and finding the
\* requester's email in it: a cancel that returns ok has removed exactly the
\* event with that id, which holds the requester's email; when the event is
\* there and the email is not in it the answer is Unauthorized; every cancel
\* that does not return ok leaves the calendar unchanged.
C24_CancelOnlyOwnEvent ==
  ret.op = "cancel" =>
    /\ ret.status = "ok" =>
         /\ Target(ret) # {} /\ cal = ret.pre \ Target(ret)
         /\ \A e \in Target(ret) : _event_contains_patient(e, ret.who)
    /\ ret.status # "ok" => cal = ret.pre
    /\ (\E e \in Target(ret) : ~ _event_contains_patient(e, ret.who)) /\ ~ ret.provFail =>
         ret.status = "error" /\ ret.err = "unauthorized"
    /\ ret.err = "unauthorized" =>
         \E e \in Target(ret) : ~ _event_contains_patient(e, ret.who)

\* C24 witness: a cancel by someone whose email is not in the event was refused
\* as unauthorized and the event is still there
C24_Witness ==
  /\ ret.op = "cancel" /\ ret.err = "unauthorized" /\ ret.who = OtherEmail
  /\ \E e \in cal : e.id = ret.event_id

\* C25: a successful reschedule is an in-place update: the calendar after it
\* is the calendar before it with the one event of the given id carrying the
\* new start and end and every other field as before; no id is given out, no
\* event is added or removed, every other event is as it was.
C25_RescheduleInPlace ==
  ret.op = "resched" /\ ret.status = "ok" =>
    /\ Target(ret) # {}
    /\ cal = (ret.pre \ Target(ret)) \cup
               {[e EXCEPT !.start = ret.start, !.end = ret.end] : e \in Target(ret)}
    /\ Cardinality(cal) = Cardinality(ret.pre)
    /\ {e.id : e \in cal} = {e.id : e \in ret.pre}
    /\ \A e \in ret.pre : e.id < nextId

\* C25 witness: a reschedule succeeded, moved the event to another interval,
\* and another event was on the calendar meanwhile
C25_Witness ==
  /\ ret.op = "resched" /\ ret.status = "ok"
  /\ \E e \in Target(ret) : e.start # ret.start
  /\ Cardinality(cal) = 2

\* C26: reschedule_tool updates the event only if the new interval passes the
\* lead-time check, the schedule-window containment and the preflight conflict
\* query and the requester's email is found in the event; when one of these
\* fails the answer is the error of the first that fails and the calendar is
\* as it was before the call.
C26_RescheduleGated ==
  ret.op = "resched" /\ ret.req.known /\ ret.req.parsed =>
    /\ ret.status = "ok" =>
         /\ ~ ret.req.early /\ ret.req.contained /\ ~ ret.req.busy
         /\ \A e \in Target(ret) : _event_contains_patient(e, ret.who)
    /\ ret.status # "ok" => cal = ret.pre
    /\ ret.req.early => ret.status = "error" /\ ret.err = "lead_time"
    /\ ~ ret.req.early /\ ~ ret.req.contained =>
         ret.status = "error" /\ ret.err = "outside_hours"
    /\ ~ ret.req.early /\ ret.req.contained /\ ret.req.busy =>
         ret.status = "error" /\ ret.err = "conflict"
    /\ /\ ~ ret.req.early /\ ret.req.contained /\ ~ ret.req.busy /\ ~ ret.provFail
       /\ \E e \in Target(ret) : ~ _event_contains_patient(e, ret.who)
       => ret.status = "error" /\ ret.err = "unauthorized"

\* C26 witness: a reschedule onto a free interval inside clinic hours and after
\* the lead time, asked by someone whose email is not in the event, was refused
\* as unauthorized
C26_Witness ==
  /\ ret.op = "resched" /\ ret.err = "unauthorized" /\ ret.who = OtherEmail
  /\ ~ ret.req.early /\ ret.req.contained /\ ~ ret.req.busy
  /\ Target(ret) # {} /\ Target(ret) \subseteq cal

\* the ids of the events on a calendar
IdsOf(calendar) == {e.id : e \in calendar}

\* the ids the provider has given out whose event has been cancelled
Cancelled == (1 .. nextId - 1) \ IdsOf(cal)

\* the ids no booking has had
NeverBooked == {i \in EventIds : i >= nextId}

\* an answer of cancel or reschedule is given in this step
LifeAnswer == ret' # ret /\ ret'.op \in {"cancel", "resched"}

\* C27: the lifecycle is nonexistent -> booked -> (rescheduled, same id)* ->
\* cancelled, cancelled being terminal: in every step of every interleaving, an
\* id whose event has been cancelled does not come back onto the calendar; a
\* cancel or reschedule answers ok only for an id that is booked when the step
\* is taken, so for a cancelled or never-booked id it answers an error; a
\* reschedule leaves the ids of the calendar as they are and a cancel removes
\* only the id it is about.
C27_CancelledIsTerminal ==
  [][/\ Cancelled \subseteq (1 .. nextId' - 1) \ IdsOf(cal')
     /\ LifeAnswer /\ ret'.event_id \in Cancelled \cup NeverBooked =>
          ret'.status = "error" /\ cal' = cal
     /\ LifeAnswer /\ ret'.status = "ok" /\ ret'.op = "resched" =>
          ret'.event_id \in IdsOf(cal) /\ IdsOf(cal') = IdsOf(cal)
     /\ LifeAnswer /\ ret'.status = "ok" /\ ret'.op = "cancel" =>
          ret'.event_id \in IdsOf(cal) /\ IdsOf(cal') = IdsOf(cal) \ {ret'.event_id}]_vars

\* C27 witness: a reschedule of an event that its owner read while it was
\* booked found it cancelled by the other caller in the meantime and failed
C27_Witness ==
  /\ ret.op = "resched" /\ ret.status = "error" /\ ret.err = "provider_error"
  /\ ~ ret.provFail
  /\ ret.event_id \in Cancelled
  /\ \E e \in ret.pre : e.id = ret.event_id

\* C28: after cancel_appointment_tool has returned ok for event id E, no list
\* for that patient returns E: neither the list that follows the cancel at
\* once nor any later list returns the id of a cancelled event.
C28_CancelledNotListed ==
  ret.op = "list" =>
    /\ ret.listed \cap Cancelled = {}
    /\ ret.event_id # NoneInt => ret.event_id \notin ret.listed

\* C28 witness: the owner cancelled one of two appointments and the list that
\* follows returns the other
C28_Witness ==
  /\ ret.op = "list" /\ ret.status = "ok" /\ ret.who = GoodEmail
  /\ ret.event_id \in Cancelled
  /\ ret.listed # {}

\* the events a list call should return: those on the queried calendars, as
\* they were at the call, that end after the call and start before the end of
\* the window and hold the patient's email
Matching(r) ==
  {e \in r.pre : /\ e.cal \in ListCalendars(r.doc)
                 /\ e.end > r.start /\ e.start < r.start + r.window_days * TicksPerDay
                 /\ _event_contains_patient(e, r.who)}

\* C29: list_appointments_tool returns exactly the events of the queried
\* calendars and future window that hold the patient's email, and for an email
\* on no event an empty list and not an error.
C29_ListExact ==
  /\ ret.op = "list" /\ ret.status = "ok" => ret.listed = IdsOf(Matching(ret))
  /\ /\ ret.op = "list" /\ ret.who # << >> /\ ret.err # "service_error"
     /\ ret.doc = NoneStr \/ DoctorKnown(ret.doc)
     /\ \A e \in ret.pre : ~ _event_contains_patient(e, ret.who)
     => ret.status = "ok" /\ ret.listed = {}

\* C30: list_appointments_tool called without a patient email returns an
\* error and makes no calendar query, whatever doctor_id is given.
C30_NoEmailNoList ==
  ret.op = "list" /\ ret.who = << >> =>
    /\ ret.status = "error" /\ ret.err = "email_required"
    /\ ret.queries = 0 /\ ret.listed = {}

\* C30 witness: a list call with a valid doctor_id and no email, while the
\* doctor's calendar holds an appointment, was refused
C30_Witness ==
  /\ ret.op = "list" /\ ret.who = << >> /\ ret.doc = "D1"
  /\ ret.status = "error"
  /\ \E e \in cal : e.cal = DB["D1"].calendar_id

\* the call that was answered named a doctor that is not in the directory
UnknownDoctorCall(r) ==
  \/ r.op \in {"avail", "range", "cancel", "resched"} /\ ~ DoctorKnown(r.doc)
  \/ r.op = "book" /\ ~ r.req.known

\* C31: availability, book, cancel and reschedule called with a doctor_id that
\* is not in the directory answer the unknown-doctor error, whatever else is
\* wrong with the request, and read and write no calendar: no provider query,
\* no insert attempt, no event made, the calendar as it was at the call.
C31_UnknownDoctorFirst ==
  UnknownDoctorCall(ret) =>
    /\ ret.status = "error" /\ ret.err = "unknown_doctor"
    /\ ret.queries = 0 /\ ret.attempts = << >> /\ ret.made = {}
    /\ ~ ret.provFail
    /\ ret.op \in {"cancel", "resched"} => cal = ret.pre

\* C31 witness: a reschedule for an unknown doctor whose new start does not
\* parse either, naming an event that exists, was refused for the doctor
C31_Witness ==
  /\ ret.op = "resched" /\ ret.doc = "DX" /\ ret.start = BadTime
  /\ ret.err = "unknown_doctor"
  /\ \E e \in cal : e.id = ret.event_id

\* C32: when operations do not interleave, after any sequence of book,
\* reschedule and cancel calls, successful or not, no two events of one
\* doctor's calendar have intersecting intervals.
C32_SequentialNoOverlap ==
  \A e1, e2 \in cal : ~ Overlapping(e1, e2)

\* C32 witness: a reschedule succeeded while another event was on the same
\* calendar, and the two events are adjacent
C32_Witness ==
  /\ ret.op = "resched" /\ ret.status = "ok"
  /\ \E e1, e2 \in cal : /\ e1.id = ret.event_id /\ e2.id # e1.id /\ e1.cal = e2.cal
                         /\ e1.start < e1.end /\ e2.start < e2.end
                         /\ (e1.end = e2.start \/ e2.end = e1.start)

\* C33: ownership isolation: an event booked with email Q is never returned by
\* a list for a different email P, and a cancel or reschedule of it asked with
\* P fails and changes nothing, also when P occurs inside Q.
C33_OwnershipIsolation ==
  /\ ret.op = "list" => \A e \in ret.pre : e.id \in ret.listed => e.email = ret.who
  /\ ret.op \in {"cancel", "resched"} /\ (\E e \in Target(ret) : e.email # ret.who) =>
       ret.status = "error" /\ cal = ret.pre

\* C34: every event the engine creates or updates ends strictly after it
\* starts: book refuses end <= start, and no reschedule writes a new interval
\* whose end is not after its start.
C34_EndAfterStart ==
  /\ \A e \in cal : e.start < e.end
  /\ ret.op = "book" /\ ret.req.known /\ ret.req.parsed /\ ~ ret.req.positive =>
       ret.status = "error" /\ ret.made = {}
  /\ ret.op = "resched" /\ ret.req.known /\ ret.req.parsed /\ ~ ret.req.positive =>
       ret.status = "error"

\* C35: every availability and booking call ends with a result, an answer or
\* an error, for every input: none hangs in the tiling loop and none ends in
\* an exception instead of a result.
C35_CallsTerminate ==
  ret.op \in {"avail", "range", "book"} => ret.status \in {"ok", "error"}

\* the instants at which the slots of an availability answer start
SlotStarts(r) ==
  IF r.op = "avail" THEN {Combine(r.date, r.slots[i]) : i \in DOMAIN r.slots}
  ELSE IF r.op = "range"
    THEN UNION {{Combine(d, r.dates[d][i]) : i \in DOMAIN r.dates[d]} : d \in DOMAIN r.dates}
  ELSE {}

\* C36: no slot that availability returns, for one date or a range, for today,
\* a past date or any other date, starts before now + MIN_LEAD_MINUTES.
C36_NoSlotBeforeCutoff ==
  ret.op \in {"avail", "range"} /\ ret.status = "ok" =>
    \A s \in SlotStarts(ret) : s >= now + Minutes(MIN_LEAD_MINUTES)

\* the new interval of a reschedule intersects the interval the event has
OwnOverlap(r) ==
  r.req.parsed /\ \E e \in Target(r) : r.start < e.end /\ r.end > e.start

\* the request passes the checks reschedule_tool makes before the preflight
ReschedLocalOk(q) == q.known /\ q.parsed /\ ~ q.early /\ q.contained

\* a reschedule that succeeded moved its event onto an interval that no event
\* of the calendar, itself included, intersected
OntoFreeOnly(r) ==
  r.op = "resched" /\ r.status = "ok" =>
    \A e \in r.pre : e.cal = DB[r.doc].calendar_id => ~ (r.start < e.end /\ r.end > e.start)

\* C37 as stated: rescheduling an event onto an interval that intersects its
\* own current interval, the identical one included, is refused with the
\* Conflict error; a reschedule succeeds only onto an interval free of all
\* events.
C37_OwnIntervalGivesConflict ==
  /\ ret.op = "resched" /\ OwnOverlap(ret) => ret.status = "error" /\ ret.err = "conflict"
  /\ OntoFreeOnly(ret)

\* C37 amended: such a reschedule is always refused and changes nothing; the
\* error is Conflict exactly when the new interval passes the lead-time and
\* schedule-window checks, and otherwise that of the first of them that fails;
\* a reschedule succeeds only onto an interval free of all events.
C37_OwnIntervalRefused ==
  /\ ret.op = "resched" /\ OwnOverlap(ret) =>
       /\ ret.status = "error" /\ cal = ret.pre
       /\ ReschedLocalOk(ret.req) <=> ret.err = "conflict"
       /\ ~ ReschedLocalOk(ret.req) => ret.err \in {"lead_time", "outside_hours"}
  /\ OntoFreeOnly(ret)

\* C37 witness: the owner asked to reschedule an event onto the interval it
\* already has, the provider answered the query, and the answer was Conflict
C37_Witness ==
  /\ ret.op = "resched" /\ ret.err = "conflict" /\ ~ ret.provFail
  /\ ret.who = GoodEmail
  /\ \E e \in Target(ret) : e.start = ret.start /\ e.end = ret.end /\ e \in cal
  /\ Cardinality(ret.pre) = 1

\* the two addresses are the same up to letter case
SameAddress(a, b) == a # << >> /\ Lower(a) = Lower(b)

\* C38: round trip for the owner: after a booking with email P succeeded, with
\* or without send_invitations and in any letter case of P, a list for P that
\* the provider answers, over a window that covers the event's start, returns
\* the event's id, and a cancel with P for that id that the provider answers
\* passes the ownership check and deletes the event.
C38_OwnerRoundTrip ==
  /\ ret.op = "list" /\ ret.status = "ok" /\ ~ ret.provFail =>
       \A e \in ret.pre :
         /\ SameAddress(ret.who, e.email) /\ e.cal \in ListCalendars(ret.doc)
         /\ e.start < e.end
         /\ ret.start <= e.start /\ e.start < ret.start + ret.window_days * TicksPerDay
         => e.id \in ret.listed
  /\ ret.op = "cancel" /\ ~ ret.provFail
       /\ (\E e \in Target(ret) : SameAddress(ret.who, e.email)) =>
       ret.status = "ok" /\ cal = ret.pre \ Target(ret)

\* C38 witness: an event booked in one letter case without invitations was
\* cancelled by its owner writing the address in the other letter case
C38_Witness ==
  /\ ret.op = "cancel" /\ ret.status = "ok"
  /\ \E e \in Target(ret) : e.email # ret.who /\ SameAddress(ret.who, e.email)
                            /\ e.attendees = {}

\* the event, start and end, lies inside one schedule window of its doctor on
\* the weekday of its start
InsideWindow(e) ==
  \E d \in DOMAIN DB :
    /\ DB[d].calendar_id = e.cal
    /\ LET date == DateOf(e.start)
           w == Windows(d, date)
       IN \E i \in DOMAIN w :
            /\ Combine(date, w[i][1]) <= e.start /\ e.start <= Combine(date, w[i][2])
            /\ Combine(date, w[i][1]) <= e.end /\ e.end <= Combine(date, w[i][2])

\* C39: in every reachable state each event written by book or by reschedule
\* lies entirely inside one schedule window of its doctor for the weekday of
\* its start, and the call that wrote it found its start at or after its lead
\* cutoff.
C39_EventsInsideWindow ==
  /\ \A e \in cal : InsideWindow(e)
  /\ ret.op \in {"book", "resched"} /\ ret.status = "ok" => ~ ret.req.early

\* C40: when the query of a doctor's calendar fails during a list call, the
\* caller gets an error and not a successful list.
C40_ListFailureSurfaced ==
  ret.op = "list" /\ ret.provFail => ret.status = "error" /\ ret.err # NoneStr

====
